---- MODULE Spec2Model ----
(***************************************************************************)
(* easyforce: the SOQL query builder of the add-on (QueryBuilder,          *)
(* QueryOptimizer, QueryValidator) and the model object that drives it     *)
(* (ModernExportModel).                                                    *)
(*                                                                         *)
(* A JavaScript string is a sequence of one-character strings, so that     *)
(* concatenation, searching, replacing and the regular expressions of the  *)
(* source are computed character by character.  A value that may be null   *)
(* or undefined is None (the empty tuple) or Some(v) (a one-element        *)
(* tuple).                                                                 *)
(***************************************************************************)
EXTENDS Integers, Sequences, FiniteSets, TLC

VARIABLES
  queryBuilder,   \* the QueryBuilder instance: its fields
  built,          \* the string buildQuery() returned, called in the present builder
                  \* state: None when it has not been called since the last change
  fmtArgs,        \* the arguments of the last formatValue(value, type) call
  fmtResult,      \* what that call returned
  input,          \* the arguments (query, objectMetadata, fieldMetadata) given
                  \* to the optimizer and the validator
  suggestions,    \* what analyzeQuery returned for them: None before the call
  errors,         \* what validateQuery returned for them: None before the call
  suggested,      \* what suggestQuery returned for them: None before the call
  model,          \* the ModernExportModel: results, isLoading, error and metadata
  requests,       \* the sfConn.rest calls that have not settled, in issue order
  batch,          \* where executeBatchOperation stands
  localStorage,   \* window.localStorage: for each key, None or Some(its text)
  clock,          \* the system clock, in milliseconds since the epoch
  queryHistory,   \* the QueryHistory instance: storageKey and maxSize
  call,           \* the last call made on SavedQueries or QueryHistory, its
                  \* argument and how it ended
  undoManager,    \* the UndoManager: history, currentIndex and maxHistory
  builderClass,   \* the class of the object model.queryBuilder refers to
  filter,         \* the state of the AdvancedFilter dialog
  table,          \* the ResultsTable: its state and the records of its data
  button          \* the injected button, its popup iframe and the page

builderVars == <<queryBuilder, built>>
formatVars == <<fmtArgs, fmtResult>>
textVars == <<input, suggestions, errors, suggested>>
appVars == <<model, requests, batch>>
storeVars == <<localStorage, clock, queryHistory, call>>
uiVars == <<undoManager, builderClass, filter, table, button>>
vars == <<builderVars, formatVars, textVars, appVars, storeVars, uiVars>>

None == <<>>
Some(v) == <<v>>

(***************************************************************************)
(* Strings                                                                 *)
(***************************************************************************)
UpperCase == <<"A","B","C","D","E","F","G","H","I","J","K","L","M","N","O","P","Q","R","S","T","U","V","W","X","Y","Z">>
LowerCase == <<"a","b","c","d","e","f","g","h","i","j","k","l","m","n","o","p","q","r","s","t","u","v","w","x","y","z">>
Digits == <<"0","1","2","3","4","5","6","7","8","9">>

Range(s) == {s[i] : i \in 1..Len(s)}

UpperSet == Range(UpperCase)
WordSet == Range(UpperCase) \cup Range(LowerCase) \cup Range(Digits) \cup {"_"}
LowerOf == [c \in UpperSet |-> LowerCase[CHOOSE i \in 1..26 : UpperCase[i] = c]]

\* String.prototype.toLowerCase, one character
toLowerCase(c) == IF c \in UpperSet THEN LowerOf[c] ELSE c

\* the regular expression classes \w and \s
IsWord(c) == c \in WordSet
IsSpace(c) == c \in {" ", "\t", "\n", "\r"}

\* does pattern p occur in s at position i
StartsAt(s, i, p) ==
  /\ i >= 1
  /\ i + Len(p) - 1 <= Len(s)
  /\ \A k \in 1..Len(p) : s[i + k - 1] = p[k]

\* the same, ignoring case (the /i flag)
StartsAtI(s, i, p) ==
  /\ i >= 1
  /\ i + Len(p) - 1 <= Len(s)
  /\ \A k \in 1..Len(p) : toLowerCase(s[i + k - 1]) = toLowerCase(p[k])

\* String.prototype.includes
includes(s, p) == \E i \in 1..(Len(s) + 1) : StartsAt(s, i, p)

\* Array.prototype.join
RECURSIVE join(_, _)
join(parts, sep) ==
  IF parts = <<>> THEN <<>>
  ELSE IF Len(parts) = 1 THEN parts[1]
  ELSE parts[1] \o sep \o join(Tail(parts), sep)

\* the decimal text of a natural number, and of an integer (template literal ${n})
RECURSIVE NatToString(_)
NatToString(n) ==
  IF n < 10 THEN <<Digits[n + 1]>>
  ELSE NatToString(n \div 10) \o <<Digits[(n % 10) + 1]>>

IntToString(n) == IF n < 0 THEN <<"-">> \o NatToString(-n) ELSE NatToString(n)

\* the value of a string of decimal digits
RECURSIVE DigitsToNat(_)
DigitsToNat(s) ==
  IF s = <<>> THEN 0
  ELSE 10 * DigitsToNat(SubSeq(s, 1, Len(s) - 1))
       + ((CHOOSE i \in 1..10 : Digits[i] = s[Len(s)]) - 1)

Min(S) == CHOOSE x \in S : \A y \in S : x <= y
Max(S) == CHOOSE x \in S : \A y \in S : x >= y

\* regular expressions ----------------------------------------------------

\* s.match(/p/i) for a literal p: does p occur in s, ignoring case
matchesI(s, p) == \E i \in 1..(Len(s) + 1) : StartsAtI(s, i, p)

\* \s+ at position p: the lengths it can take
RECURSIVE spaceRun(_, _)
spaceRun(s, p) == IF p <= Len(s) /\ IsSpace(s[p]) THEN 1 + spaceRun(s, p + 1) ELSE 0

SpaceRuns(s, p) == 1..spaceRun(s, p)

\* "." matches any character but a line terminator: the longest .* at p
IsLineTerminator(c) == c \in {"\n", "\r"}

RECURSIVE dotRun(_, _)
dotRun(s, p) ==
  IF p <= Len(s) /\ ~IsLineTerminator(s[p]) THEN 1 + dotRun(s, p + 1) ELSE 0

\* (?:\s+ORDER BY|\s+LIMIT|$)
WhereEnd(s, e) ==
  \/ e = Len(s) + 1
  \/ \E k \in SpaceRuns(s, e) :
       StartsAtI(s, e + k, <<"O","R","D","E","R"," ","B","Y">>) \/ StartsAtI(s, e + k, <<"L","I","M","I","T">>)

\* \s+FROM
FromEnd(s, e) == \E k \in SpaceRuns(s, e) : StartsAtI(s, e + k, <<"F","R","O","M">>)

\* s.match(/KEYWORD\s+(.*?)END/i), END being (?:\s+ORDER BY|\s+LIMIT|$) when
\* end is "where" and \s+FROM when it is "from", tried at the position after
\* the capture: None, or Some(the capture) of the leftmost match, \s+ being
\* greedy and .*? lazy
matchLazy(s, keyword, end) ==
  LET n == Len(keyword)
      End(e) == IF end = "where" THEN WhereEnd(s, e) ELSE FromEnd(s, e)
      captures(i, k) ==
        {len \in 0..dotRun(s, i + n + k) : End(i + n + k + len)}
      spaces(i) == {k \in SpaceRuns(s, i + n) : captures(i, k) # {}}
      starts == {i \in 1..Len(s) : StartsAtI(s, i, keyword) /\ spaces(i) # {}}
  IN IF starts = {} THEN None
     ELSE LET i == Min(starts)
              k == Max(spaces(i))
              len == Min(captures(i, k))
          IN Some(SubSeq(s, i + n + k, i + n + k + len - 1))

\* query.match(/WHERE\s+(.*?)(?:\s+ORDER BY|\s+LIMIT|$)/i)
matchWhere(s) == matchLazy(s, <<"W","H","E","R","E">>, "where")

\* query.match(/SELECT\s+(.*?)\s+FROM/i)
matchSelect(s) == matchLazy(s, <<"S","E","L","E","C","T">>, "from")

\* \w+ at position p (p on a word character): its length
RECURSIVE WordRun(_, _)
WordRun(s, p) == IF p <= Len(s) /\ IsWord(s[p]) THEN 1 + WordRun(s, p + 1) ELSE 0

\* s.match(/\w+\.\w+|\w+/g) from position p on
RECURSIVE tokensFrom(_, _)
tokensFrom(s, p) ==
  IF p > Len(s) THEN <<>>
  ELSE IF ~IsWord(s[p]) THEN tokensFrom(s, p + 1)
  ELSE LET w == WordRun(s, p)
           dot == p + w
           dotted == dot + 1 <= Len(s) /\ s[dot] = "." /\ IsWord(s[dot + 1])
           len == IF dotted THEN w + 1 + WordRun(s, dot + 1) ELSE w
       IN <<SubSeq(s, p, p + len - 1)>> \o tokensFrom(s, p + len)

\* query.match(/FROM\s+(\w+)/i): None or Some(the name)
matchFrom(s) ==
  LET name(i) == i + 4 + spaceRun(s, i + 4)
      starts == {i \in 1..Len(s) :
                   /\ StartsAtI(s, i, <<"F","R","O","M">>)
                   /\ spaceRun(s, i + 4) >= 1
                   /\ name(i) <= Len(s)
                   /\ IsWord(s[name(i)])}
  IN IF starts = {} THEN None
     ELSE LET p == name(Min(starts))
          IN Some(SubSeq(s, p, p + WordRun(s, p) - 1))

\* query.match(/SELECT\s+\*/i)
matchSelectStar(s) ==
  \E i \in 1..Len(s) :
    /\ StartsAtI(s, i, <<"S","E","L","E","C","T">>)
    /\ \E k \in SpaceRuns(s, i + 6) : StartsAt(s, i + 6 + k, <<"*">>)

\* String.prototype.split(',')
RECURSIVE split(_)
split(s) ==
  LET commas == {i \in 1..Len(s) : s[i] = ","}
  IN IF commas = {} THEN <<s>>
     ELSE <<SubSeq(s, 1, Min(commas) - 1)>> \o split(SubSeq(s, Min(commas) + 1, Len(s)))

\* String.prototype.trim
trim(s) ==
  LET solid == {i \in 1..Len(s) : ~IsSpace(s[i])}
  IN IF solid = {} THEN <<>> ELSE SubSeq(s, Min(solid), Max(solid))

\* Array.prototype.find by name: None or Some(the first entry of that name)
find(metadata, name) ==
  LET hits == {i \in 1..Len(metadata) : metadata[i].name = name}
  IN IF hits = {} THEN None ELSE Some(metadata[Min(hits)])

\* the elements of a sequence of sequences one after the other
RECURSIVE flatten(_)
flatten(ss) == IF ss = <<>> THEN <<>> ELSE Head(ss) \o flatten(Tail(ss))

(***************************************************************************)
(* QueryBuilder                                                            *)
(***************************************************************************)

\* new QueryBuilder(): blocks is never read by buildQuery and is left out
NewQueryBuilder ==
  [ conditions     |-> <<>>,
    selectedObject |-> None,
    selectedFields |-> <<>>,     \* a Set: its members in insertion order
    orderBy        |-> <<>>,
    limit          |-> None,
    groupOperator  |-> <<"A","N","D">> ]

\* value.replace(/'/g, "\\'")
escapeQuotes_mutFirstOnly(value) ==
  LET at == {i \in 1..Len(value) : value[i] = "'"}
      first == CHOOSE i \in at : \A j \in at : i <= j
  IN IF at = {} THEN value
     ELSE SubSeq(value, 1, first - 1) \o <<"\\","'">> \o SubSeq(value, first + 1, Len(value))

RECURSIVE escapeQuotes(_)
escapeQuotes(value) ==
  IF value = <<>> THEN <<>>
  ELSE (IF Head(value) = "'" THEN <<"\\","'">> ELSE <<Head(value)>>)
       \o escapeQuotes(Tail(value))

\* QueryBuilder.formatValue(value, type); type is the tag, "undefined" when
\* the condition carries none
formatValue(value, type) ==
  CASE type \in {"string", "textarea", "url", "email", "phone"} ->
         <<"'">> \o escapeQuotes(value) \o <<"'">>
    [] type = "boolean" -> value
    [] type = "date" -> IF includes(value, <<"'">>) THEN value ELSE <<"'">> \o value \o <<"'">>
    [] type = "datetime" -> IF includes(value, <<"'">>) THEN value ELSE value
    [] type \in {"number", "currency", "percent"} -> value
    [] OTHER -> <<"'">> \o escapeQuotes(value) \o <<"'">>

\* a JavaScript value used as a condition: null, undefined, "" and 0 are falsy
TruthyString(opt) == opt # None /\ opt[1] # <<>>
TruthyNumber(opt) == opt # None /\ opt[1] # 0

\* lines 25-30: the field list
selectClause_mutStar(this) ==
  IF Len(this.selectedFields) = 0 THEN <<"*">>
  ELSE join(this.selectedFields, <<","," ">>)

selectClause(this) ==
  IF Len(this.selectedFields) = 0 THEN <<"I","d">>
  ELSE join(this.selectedFields, <<","," ">>)

\* lines 32-35
fromClause(this) ==
  IF TruthyString(this.selectedObject)
  THEN <<" ","F","R","O","M"," ">> \o this.selectedObject[1]
  ELSE <<>>

\* line 42: condition.groupId || 'default'
groupKey(condition) ==
  IF TruthyString(condition.groupId) THEN condition.groupId[1] ELSE <<"d","e","f","a","u","l","t">>

\* the keys of the accumulator in the order the reduce creates them
RECURSIVE insertionOrder(_, _)
insertionOrder(conditions, seen) ==
  IF conditions = <<>> THEN <<>>
  ELSE LET k == groupKey(Head(conditions)) IN
       IF k \in seen THEN insertionOrder(Tail(conditions), seen)
       ELSE <<k>> \o insertionOrder(Tail(conditions), seen \cup {k})

\* a property key that is a canonical array index ("0", "7", "12", not "01")
IsIntegerKey(k) ==
  /\ Len(k) >= 1
  /\ Len(k) <= 9
  /\ \A i \in 1..Len(k) : k[i] \in Range(Digits)
  /\ (Len(k) > 1 => k[1] # "0")

\* ascending sort of integer keys
RECURSIVE sortKeys(_)
sortKeys(keys) ==
  IF keys = {} THEN <<>>
  ELSE LET m == CHOOSE k \in keys : \A o \in keys : DigitsToNat(k) <= DigitsToNat(o)
       IN <<m>> \o sortKeys(keys \ {m})

\* Object.entries: integer keys ascending, then the other keys as inserted
entriesOrder(conditions) ==
  LET inserted == insertionOrder(conditions, {})
      ints == {inserted[i] : i \in {j \in 1..Len(inserted) : IsIntegerKey(inserted[j])}}
  IN sortKeys(ints) \o SelectSeq(inserted, LAMBDA k : ~IsIntegerKey(k))

\* line 52: one condition
conditionString(this, condition) ==
  condition.field \o <<" ">> \o condition.operator \o <<" ">>
    \o formatValue(condition.value, condition.type)

\* lines 50-56: one group
groupString_mutAlwaysParens(this, conditions) ==
  LET conditionStrings == [i \in 1..Len(conditions) |-> conditionString(this, conditions[i])]
      conditionStr == join(conditionStrings, <<" ">> \o this.groupOperator \o <<" ">>)
  IN <<"(">> \o conditionStr \o <<")">>

groupString(this, conditions) ==
  LET conditionStrings == [i \in 1..Len(conditions) |-> conditionString(this, conditions[i])]
      conditionStr == join(conditionStrings, <<" ">> \o this.groupOperator \o <<" ">>)
  IN IF Len(conditions) > 1 THEN <<"(">> \o conditionStr \o <<")">> ELSE conditionStr

\* lines 38-59
whereClause_mutGroupsJoinedByAnd(this) ==
  IF Len(this.conditions) > 0
  THEN LET keys == entriesOrder(this.conditions)
           groupStrings == [i \in 1..Len(keys) |->
             groupString(this, SelectSeq(this.conditions, LAMBDA c : groupKey(c) = keys[i]))]
       IN <<" ","W","H","E","R","E"," ">> \o join(groupStrings, <<" ","A","N","D"," ">>)
  ELSE <<>>

whereClause(this) ==
  IF Len(this.conditions) > 0
  THEN LET keys == entriesOrder(this.conditions)
           groupStrings == [i \in 1..Len(keys) |->
             groupString(this, SelectSeq(this.conditions, LAMBDA c : groupKey(c) = keys[i]))]
       IN <<" ","W","H","E","R","E"," ">> \o join(groupStrings, <<" ">> \o this.groupOperator \o <<" ">>)
  ELSE <<>>

\* lines 61-66
orderByClause(this) ==
  IF Len(this.orderBy) > 0
  THEN <<" ","O","R","D","E","R"," ","B","Y"," ">>
       \o join([i \in 1..Len(this.orderBy) |->
                  this.orderBy[i].field \o <<" ">> \o this.orderBy[i].direction], <<","," ">>)
  ELSE <<>>

\* lines 68-71
limitClause_mutNotNull(this) ==
  IF this.limit # None THEN <<" ","L","I","M","I","T"," ">> \o IntToString(this.limit[1]) ELSE <<>>

limitClause(this) ==
  IF TruthyNumber(this.limit) THEN <<" ","L","I","M","I","T"," ">> \o IntToString(this.limit[1]) ELSE <<>>

\* the receiver after a buildQuery() call: the method assigns to no field
afterBuildQuery_mutConsumesLimit(this) == [this EXCEPT !.limit = None]

afterBuildQuery(this) == this

\* QueryBuilder.buildQuery(): the string returned
buildQuery(this) ==
  <<"S","E","L","E","C","T"," ">> \o selectClause(this) \o fromClause(this) \o whereClause(this)
    \o orderByClause(this) \o limitClause(this)

(***************************************************************************)
(* Inputs of the builder specification                                     *)
(***************************************************************************)
MaxConditions == 3

Condition(field, operator, value, type, groupId) ==
  [field |-> field, operator |-> operator, value |-> value, type |-> type,
   groupId |-> groupId]

ConditionPool ==
  { Condition(<<"E","m","a","i","l">>, <<"=">>, <<"a","@","b",".","c","o","m">>, "email", None),
    Condition(<<"N","a","m","e">>, <<"!","=">>, <<"O","'","B","r","i","e","n">>, "string", Some(<<"b">>)),
    Condition(<<"A","m","o","u","n","t">>, <<">">>, <<"5">>, "number", Some(<<"2">>)),
    Condition(<<"I","s","A","c","t","i","v","e">>, <<"=">>, <<"t","r","u","e">>, "boolean", Some(<<"1">>)) }

RECURSIVE SeqsUpTo(_, _)
SeqsUpTo(S, n) ==
  IF n = 0 THEN {<<>>}
  ELSE LET shorter == SeqsUpTo(S, n - 1)
       IN shorter \cup {Append(s, x) : s \in {t \in shorter : Len(t) = n - 1}, x \in S}

ObjectChoices == {None, Some(<<"A","c","c","o","u","n","t">>), Some(<<"C","o","n","t","a","c","t">>)}
FieldChoices == {<<>>, <<<<"N","a","m","e">>>>, <<<<"N","a","m","e">>, <<"E","m","a","i","l">>>>}
OrderByChoices ==
  { <<>>,
    <<[field |-> <<"N","a","m","e">>, direction |-> <<"A","S","C">>]>>,
    <<[field |-> <<"C","r","e","a","t","e","d","D","a","t","e">>, direction |-> <<"D","E","S","C">>],
      [field |-> <<"N","a","m","e">>, direction |-> <<"A","S","C">>]>> }
LimitChoices == {None, Some(0), Some(25)}
OperatorChoices == {<<"A","N","D">>, <<"O","R">>}

BuilderStates ==
  [ conditions     : SeqsUpTo(ConditionPool, MaxConditions),
    selectedObject : ObjectChoices,
    selectedFields : FieldChoices,
    orderBy        : OrderByChoices,
    limit          : LimitChoices,
    groupOperator  : OperatorChoices ]

FormatIdle == fmtArgs = None /\ fmtResult = None
TextIdle == input = None /\ suggestions = None /\ errors = None /\ suggested = None

\* new ModernExportModel(sfHost), the fields the requests read and write
NewModel ==
  [ results        |-> None,
    isLoading      |-> FALSE,
    error          |-> None,
    objectMetadata |-> None,
    fieldMetadata  |-> None ]

AppIdle == model = NewModel /\ requests = <<>> /\ batch = "idle"

\* JavaScript values: a pair of what typeof and Array.isArray tell and the
\* value itself; the properties of an object are the pairs <<key, value>> in
\* insertion order
JNull == <<"null", 0>>
JUndefined == <<"undefined", 0>>
JBool(b) == <<"boolean", b>>
JNum(n) == <<"number", n>>
JStr(s) == <<"string", s>>
JArr(items) == <<"array", items>>
JObj(props) == <<"object", props>>
typeOf(x) == x[1]
valueOf(x) == x[2]

\* before any call on the stores
NoCall ==
  [op |-> "none", arg |-> JUndefined, before |-> JUndefined, threw |-> FALSE,
   returned |-> JUndefined, at |-> 0]

\* new SavedQueries(), new QueryHistory(): the default keys and maxSize
SavedKey == "modernExportSavedQueries"
HistoryKey == "modernExportQueryHistory"
NewQueryHistory == [storageKey |-> HistoryKey, maxSize |-> 50]
EmptyStorage == [k \in {SavedKey, HistoryKey} |-> None]

StoreIdle ==
  /\ localStorage = EmptyStorage
  /\ clock = 0
  /\ queryHistory = NewQueryHistory
  /\ call = NoCall

\* new UndoManager(maxHistory)
NewUndoManager(maxHistory) ==
  [history |-> <<>>, currentIndex |-> -1, maxHistory |-> maxHistory]

\* the state of a new AdvancedFilter
NewAdvancedFilter == [conditions |-> <<>>, operator |-> <<"A","N","D">>]

\* the state of a new ResultsTable over data of so many records
NewResultsTable(records) == [page |-> 1, pageSize |-> 50, records |-> records]

\* the page after initButton: the button is there, no popup yet
NewButton ==
  [ active    |-> FALSE,   \* rootEl has the class insext-active
    popupEl   |-> FALSE,   \* the iframe exists
    display   |-> "",      \* popupEl.style.display
    overflow  |-> "",      \* document.body.style.overflow
    iframes   |-> 0,       \* iframes created
    listeners |-> 0,       \* message listeners added to the window
    posted    |-> <<>>,    \* messages posted to the popup, not yet taken
    shown     |-> 0,       \* calls of showStdPageDetails
    inInspector  |-> FALSE,   \* the argument of initButton
    inDevConsole |-> FALSE,   \* the page has body.ApexCSIPage
    inLightning  |-> FALSE ]  \* the page has #auraLoadingBox

UiIdle ==
  /\ undoManager = NewUndoManager(50)
  /\ builderClass = "QueryBuilder"
  /\ filter = NewAdvancedFilter
  /\ table = NewResultsTable(0)
  /\ button = NewButton

(***************************************************************************)
(* The builder specification: any builder state, then buildQuery() calls   *)
(***************************************************************************)
BuilderInit ==
  /\ queryBuilder \in BuilderStates
  /\ built = None
  /\ FormatIdle
  /\ TextIdle
  /\ AppIdle
  /\ StoreIdle
  /\ UiIdle

\* const query = queryBuilder.buildQuery()
BuildQuery ==
  /\ built' = Some(buildQuery(queryBuilder))
  /\ queryBuilder' = afterBuildQuery(queryBuilder)
  /\ UNCHANGED <<formatVars, textVars, appVars, storeVars, uiVars>>

\* parseInt(value) of the text of a number input that starts with a digit:
\* the digits up to the first other character
leadingDigits(value) ==
  LET stop == {i \in 1..Len(value) : value[i] \notin Range(Digits)}
  IN IF stop = {} THEN value
     ELSE SubSeq(value, 1, (CHOOSE i \in stop : \A j \in stop : i <= j) - 1)

parseInt(value) == DigitsToNat(leadingDigits(value))

\* what the user can have typed in the limit input
LimitInputs == {<<>>, <<"0">>, <<"2","5">>, <<"7",".","5">>}

\* the onChange handler of the limit input
LimitInput(value) ==
  /\ queryBuilder' = [queryBuilder EXCEPT
       !.limit = IF value # <<>> THEN Some(parseInt(value)) ELSE None]
  /\ built' = None
  /\ UNCHANGED <<formatVars, textVars, appVars, storeVars, uiVars>>

BuilderNext ==
  \/ BuildQuery
  \/ \E value \in LimitInputs : LimitInput(value)

SpecBuilder == BuilderInit /\ [][BuilderNext]_vars

(***************************************************************************)
(* QueryOptimizer                                                          *)
(***************************************************************************)
Suggestion(severity, message, fix) ==
  [type |-> "performance", severity |-> severity, message |-> message, fix |-> fix]

SelectStarSuggestion ==
  Suggestion("warning", <<"S","p","e","c","i","f","y"," ","o","n","l","y"," ","n","e","e","d","e","d"," ","f","i","e","l","d","s"," ","i","n","s","t","e","a","d"," ","o","f"," ","S","E","L","E","C","T"," ","*">>,
             <<"S","e","l","e","c","t"," ","s","p","e","c","i","f","i","c"," ","f","i","e","l","d","s">>)
TooManySuggestion ==
  Suggestion("warning", <<"Q","u","e","r","y"," ","m","i","g","h","t"," ","r","e","t","u","r","n"," ","t","o","o"," ","m","a","n","y"," ","r","e","c","o","r","d","s">>,
             <<"A","d","d"," ","W","H","E","R","E"," ","c","l","a","u","s","e"," ","o","r"," ","L","I","M","I","T">>)
NotIndexedSuggestion(field) ==
  Suggestion("info", <<"F","i","e","l","d"," ","\"">> \o field \o <<"\""," ","i","s"," ","n","o","t"," ","i","n","d","e","x","e","d">>,
             <<"C","o","n","s","i","d","e","r"," ","u","s","i","n","g"," ","i","n","d","e","x","e","d"," ","f","i","e","l","d","s"," ","i","n"," ","f","i","l","t","e","r","s">>)
OrderBySuggestion ==
  Suggestion("info", <<"O","R","D","E","R"," ","B","Y"," ","w","i","t","h","o","u","t"," ","L","I","M","I","T"," ","m","i","g","h","t"," ","b","e"," ","s","l","o","w">>, <<"A","d","d"," ","L","I","M","I","T"," ","c","l","a","u","s","e">>)

\* lines 216-233: the suggestions of the forEach over the tokens
notIndexed_mutFlagInverted(query, fieldMetadata) ==
  LET whereMatch == matchWhere(query)
  IN IF whereMatch # None /\ fieldMetadata # None
     THEN LET usedFields == tokensFrom(whereMatch[1], 1)
              one(field) ==
                LET fieldInfo == find(fieldMetadata[1], field)
                IN IF fieldInfo # None /\ fieldInfo[1].indexed
                   THEN <<NotIndexedSuggestion(field)>> ELSE <<>>
          IN flatten([i \in 1..Len(usedFields) |-> one(usedFields[i])])
     ELSE <<>>

notIndexed(query, fieldMetadata) ==
  LET whereMatch == matchWhere(query)
  IN IF whereMatch # None /\ fieldMetadata # None
     THEN LET usedFields == tokensFrom(whereMatch[1], 1)
              one(field) ==
                LET fieldInfo == find(fieldMetadata[1], field)
                IN IF fieldInfo # None /\ ~fieldInfo[1].indexed
                   THEN <<NotIndexedSuggestion(field)>> ELSE <<>>
          IN flatten([i \in 1..Len(usedFields) |-> one(usedFields[i])])
     ELSE <<>>

\* QueryOptimizer.analyzeQuery(query, objectMetadata, fieldMetadata)
analyzeQuery_mutElseIf(query, objectMetadata, fieldMetadata) ==
  IF matchSelectStar(query) THEN <<SelectStarSuggestion>>
  ELSE (IF ~matchesI(query, <<"W","H","E","R","E">>) /\ ~matchesI(query, <<"L","I","M","I","T">>)
        THEN <<TooManySuggestion>> ELSE <<>>)
       \o notIndexed(query, fieldMetadata)
       \o (IF matchesI(query, <<"O","R","D","E","R"," ","B","Y">>) /\ ~matchesI(query, <<"L","I","M","I","T">>)
           THEN <<OrderBySuggestion>> ELSE <<>>)

analyzeQuery(query, objectMetadata, fieldMetadata) ==
  (IF matchSelectStar(query) THEN <<SelectStarSuggestion>> ELSE <<>>)
  \o (IF ~matchesI(query, <<"W","H","E","R","E">>) /\ ~matchesI(query, <<"L","I","M","I","T">>)
      THEN <<TooManySuggestion>> ELSE <<>>)
  \o notIndexed(query, fieldMetadata)
  \o (IF matchesI(query, <<"O","R","D","E","R"," ","B","Y">>) /\ ~matchesI(query, <<"L","I","M","I","T">>)
      THEN <<OrderBySuggestion>> ELSE <<>>)

(***************************************************************************)
(* QueryValidator                                                          *)
(***************************************************************************)
StructureError == <<"Q","u","e","r","y"," ","m","u","s","t"," ","i","n","c","l","u","d","e"," ","S","E","L","E","C","T"," ","a","n","d"," ","F","R","O","M"," ","c","l","a","u","s","e","s">>
ObjectError(objectName) == <<"O","b","j","e","c","t"," ","\"">> \o objectName \o <<"\""," ","n","o","t"," ","f","o","u","n","d">>
WildcardError == <<"W","i","l","d","c","a","r","d"," ","(","*",")"," ","s","e","l","e","c","t","i","o","n","s"," ","a","r","e"," ","n","o","t"," ","s","u","p","p","o","r","t","e","d">>
FieldError(field) == <<"F","i","e","l","d"," ","\"">> \o field \o <<"\""," ","n","o","t"," ","f","o","u","n","d">>
ParenthesesError == <<"U","n","m","a","t","c","h","e","d"," ","p","a","r","e","n","t","h","e","s","e","s"," ","i","n"," ","W","H","E","R","E"," ","c","l","a","u","s","e">>

\* lines 1090-1097
objectErrors(query, objectMetadata) ==
  LET fromMatch == matchFrom(query)
  IN IF fromMatch # None /\ find(objectMetadata, fromMatch[1]) = None
     THEN <<ObjectError(fromMatch[1])>> ELSE <<>>

\* lines 1099-1110; fieldMetadata?.find is undefined when fieldMetadata is null
fieldErrors_mutIdChecked(query, fieldMetadata) ==
  LET selectMatch == matchSelect(query)
  IN IF selectMatch # None
     THEN LET parts == split(selectMatch[1])
              fields == [i \in 1..Len(parts) |-> trim(parts[i])]
              one(field) ==
                IF field = <<"*">> THEN <<WildcardError>>
                ELSE IF fieldMetadata = None \/ find(fieldMetadata[1], field) = None
                     THEN <<FieldError(field)>>
                     ELSE <<>>
          IN flatten([i \in 1..Len(fields) |-> one(fields[i])])
     ELSE <<>>

fieldErrors(query, fieldMetadata) ==
  LET selectMatch == matchSelect(query)
  IN IF selectMatch # None
     THEN LET parts == split(selectMatch[1])
              fields == [i \in 1..Len(parts) |-> trim(parts[i])]
              one(field) ==
                IF field = <<"*">> THEN <<WildcardError>>
                ELSE IF field # <<"I","d">>
                        /\ (fieldMetadata = None \/ find(fieldMetadata[1], field) = None)
                     THEN <<FieldError(field)>>
                     ELSE <<>>
          IN flatten([i \in 1..Len(fields) |-> one(fields[i])])
     ELSE <<>>

\* lines 1112-1119
parenthesesErrors_mutPerParenthesis(query) ==
  LET whereMatch == matchWhere(query)
  IN IF whereMatch = None THEN <<>>
     ELSE LET opens == Cardinality({i \in 1..Len(whereMatch[1]) : whereMatch[1][i] = "("})
              closes == Cardinality({i \in 1..Len(whereMatch[1]) : whereMatch[1][i] = ")"})
              n == IF opens > closes THEN opens - closes ELSE closes - opens
          IN [i \in 1..n |-> ParenthesesError]

parenthesesErrors(query) ==
  LET whereMatch == matchWhere(query)
  IN IF whereMatch # None
        /\ Cardinality({i \in 1..Len(whereMatch[1]) : whereMatch[1][i] = "("})
             # Cardinality({i \in 1..Len(whereMatch[1]) : whereMatch[1][i] = ")"})
     THEN <<ParenthesesError>> ELSE <<>>

\* QueryValidator.validateQuery(query, objectMetadata, fieldMetadata)
validateQuery_mutLacksBoth(query, objectMetadata, fieldMetadata) ==
  IF ~includes(query, <<"S","E","L","E","C","T">>) /\ ~includes(query, <<"F","R","O","M">>)
  THEN <<StructureError>>
  ELSE objectErrors(query, objectMetadata)
       \o fieldErrors(query, fieldMetadata)
       \o parenthesesErrors(query)

validateQuery(query, objectMetadata, fieldMetadata) ==
  IF ~includes(query, <<"S","E","L","E","C","T">>) \/ ~includes(query, <<"F","R","O","M">>)
  THEN <<StructureError>>
  ELSE objectErrors(query, objectMetadata)
       \o fieldErrors(query, fieldMetadata)
       \o parenthesesErrors(query)

\* s.toLowerCase()
lowered(s) == [i \in 1..Len(s) |-> toLowerCase(s[i])]

\* s.startsWith(p)
startsWith(s, p) == StartsAt(s, 1, p)

\* partialQuery.match(/FROM\s+(\w*)$/i): \s+ takes the whole run of white
\* space, since \w* takes none of it and $ is the end of the text
matchFromPartial(s) ==
  LET ok(i) ==
        /\ StartsAtI(s, i, <<"F","R","O","M">>)
        /\ spaceRun(s, i + 4) >= 1
        /\ \A j \in (i + 4 + spaceRun(s, i + 4))..Len(s) : IsWord(s[j])
      starts == {i \in 1..Len(s) : ok(i)}
  IN IF starts = {} THEN None
     ELSE LET i == Min(starts)
          IN Some(SubSeq(s, i + 4 + spaceRun(s, i + 4), Len(s)))

\* partialQuery.match(/SELECT\s*$/i), as a condition
matchSelectEnd(s) ==
  \E i \in 1..Len(s) :
    StartsAtI(s, i, <<"S","E","L","E","C","T">>) /\ \A j \in (i + 6)..Len(s) : IsSpace(s[j])

\* x.label: undefined (None) when x has no such property
labelOf(x) == IF "label" \in DOMAIN x THEN Some(x.label) ELSE None

Completion(type, text, description) ==
  [type |-> type, text |-> text, description |-> description]

\* lines 1127-1140
suggestObjects_mutNoPrefix(partialQuery, objectMetadata) ==
  IF includes(lowered(partialQuery), <<"f","r","o","m">>) /\ ~includes(lowered(partialQuery), <<"w","h","e","r","e">>)
     /\ matchFromPartial(partialQuery) # None
  THEN [i \in 1..Len(objectMetadata) |->
          Completion("object", objectMetadata[i].name, labelOf(objectMetadata[i]))]
  ELSE <<>>

suggestObjects(partialQuery, objectMetadata) ==
  IF includes(lowered(partialQuery), <<"f","r","o","m">>) /\ ~includes(lowered(partialQuery), <<"w","h","e","r","e">>)
  THEN LET fromMatch == matchFromPartial(partialQuery)
       IN IF fromMatch # None
          THEN LET partial == lowered(fromMatch[1])
                   kept == SelectSeq(objectMetadata,
                             LAMBDA obj : startsWith(lowered(obj.name), partial))
               IN [i \in 1..Len(kept) |->
                     Completion("object", kept[i].name, labelOf(kept[i]))]
          ELSE <<>>
  ELSE <<>>

\* lines 1142-1150
suggestFields(partialQuery, fieldMetadata) ==
  IF fieldMetadata # None /\ matchSelectEnd(partialQuery)
  THEN [i \in 1..Len(fieldMetadata[1]) |->
          Completion("field", fieldMetadata[1][i].name, labelOf(fieldMetadata[1][i]))]
  ELSE <<>>

\* QueryValidator.suggestQuery(partialQuery, objectMetadata, fieldMetadata)
suggestQuery(partialQuery, objectMetadata, fieldMetadata) ==
  suggestObjects(partialQuery, objectMetadata) \o suggestFields(partialQuery, fieldMetadata)

(***************************************************************************)
(* The text specification: a query string and metadata, handed to the      *)
(* optimizer, to the validator and to the completion of a partial query    *)
(***************************************************************************)
SelectParts == {<<"S","E","L","E","C","T"," ","*">>, <<"s","e","l","e","c","t"," "," ","*">>, <<"S","E","L","E","C","T"," ","I","d",","," ","N","a","m","e">>, <<"S","E","L","E","C","T"," ","F","o","o">>, <<"I","d",","," ","N","a","m","e">>}
FromParts == {<<>>, <<" ","F","R","O","M"," ","A","c","c","o","u","n","t">>, <<" ","f","r","o","m"," ","A","c","c","o","u","n","t">>, <<" ","F","R","O","M"," ","U","n","k","n","o","w","n">>}
WhereParts ==
  { <<>>,
    <<" ","W","H","E","R","E"," ","N","a","m","e"," ","="," ","'","x","'">>,
    <<" ","W","H","E","R","E"," ","(","A"," ","="," ","1">>,
    <<" ","W","H","E","R","E"," ","(","(","A"," ","="," ","1">>,
    <<" ","W","H","E","R","E"," ","(","A"," ","="," ","1",")"," ","A","N","D"," ","(","N","a","m","e"," ","="," ","'","x","'",")">>,
    <<" ","w","h","e","r","e"," ","A","c","c","o","u","n","t",".","N","a","m","e"," ","="," ","'","E","m","a","i","l","'"," ","A","N","D"," ","E","m","a","i","l"," ","!","="," ","n","u","l","l"," ","A","N","D"," ","N","a","m","e"," ","L","I","K","E"," ","'","N","%","'">> }
OrderParts == {<<>>, <<" ","O","R","D","E","R"," ","B","Y"," ","N","a","m","e">>, <<" ","o","r","d","e","r"," ","b","y"," ","N","a","m","e">>}
LimitParts == {<<>>, <<" ","L","I","M","I","T"," ","5">>}

\* what the user can have typed so far
PartialQueries ==
  { <<"S","E","L","E","C","T">>, <<"s","e","l","e","c","t"," "," ">>, <<"S","E","L","E","C","T"," ","I","d">>, <<"S","E","L","E","C","T"," ","I","d"," ","F","R","O","M">>, <<"S","E","L","E","C","T"," ","I","d"," ","F","R","O","M"," ">>,
    <<"S","E","L","E","C","T"," ","I","d"," ","F","R","O","M"," ","A","c","c">>, <<"S","E","L","E","C","T"," ","I","d"," ","f","r","o","m"," ","c","o","n">>, <<"S","E","L","E","C","T"," ","I","d"," ","F","R","O","M"," ","A","c","c","o","u","n","t"," ","W","H","E","R","E">>,
    <<"S","E","L","E","C","T"," ","I","d"," ","F","R","O","M"," ","A","c","c","-">>, <<"F","R","O","M"," ","S","E","L","E","C","T">>, <<"F","R","O","M"," ","a","c","c","o","u","n","t","_","p","l","a","n","_","_","c"," ","S","E","L","E","C","T"," ">> }

QueryTexts ==
  {s \o f \o w \o o \o l :
     s \in SelectParts, f \in FromParts, w \in WhereParts, o \in OrderParts, l \in LimitParts}
  \cup PartialQueries

Field(name, indexed) == [name |-> name, indexed |-> indexed]
Object(name, label) == [name |-> name, label |-> label]

ObjectMetadataChoices ==
  { <<Object(<<"A","c","c","o","u","n","t">>, <<"A","c","c","o","u","n","t">>), Object(<<"C","o","n","t","a","c","t">>, <<"C","o","n","t","a","c","t">>),
      Object(<<"A","c","c","o","u","n","t","_","P","l","a","n","_","_","c">>, <<"A","c","c","o","u","n","t"," ","P","l","a","n">>), Object(<<"S","e","l","e","c","t","_","_","c">>, <<"S","e","l","e","c","t","i","o","n">>)>> }

FieldMetadataChoices ==
  { None,
    Some(<<>>),
    Some(<<Field(<<"I","d">>, TRUE), Field(<<"N","a","m","e">>, FALSE), Field(<<"E","m","a","i","l">>, TRUE),
           Field(<<"A">>, FALSE)>>),
    Some(<<Field(<<"N","a","m","e">>, TRUE), Field(<<"E","m","a","i","l">>, FALSE)>>) }

TextInputs ==
  [query : QueryTexts, objectMetadata : ObjectMetadataChoices,
   fieldMetadata : FieldMetadataChoices]

TextInit ==
  /\ input \in {Some(i) : i \in TextInputs}
  /\ suggestions = None
  /\ errors = None
  /\ suggested = None
  /\ queryBuilder = NewQueryBuilder
  /\ built = None
  /\ FormatIdle
  /\ AppIdle
  /\ StoreIdle
  /\ UiIdle

AnalyzeQuery ==
  /\ suggestions' =
       Some(analyzeQuery(input[1].query, input[1].objectMetadata, input[1].fieldMetadata))
  /\ UNCHANGED <<input, errors, suggested, builderVars, formatVars, appVars, storeVars, uiVars>>

ValidateQuery ==
  /\ errors' =
       Some(validateQuery(input[1].query, input[1].objectMetadata, input[1].fieldMetadata))
  /\ UNCHANGED <<input, suggestions, suggested, builderVars, formatVars, appVars, storeVars, uiVars>>

SuggestQuery ==
  /\ suggested' =
       Some(suggestQuery(input[1].query, input[1].objectMetadata, input[1].fieldMetadata))
  /\ UNCHANGED <<input, suggestions, errors, builderVars, formatVars, appVars, storeVars, uiVars>>

TextNext == AnalyzeQuery \/ ValidateQuery \/ SuggestQuery

SpecText == TextInit /\ [][TextNext]_vars

(***************************************************************************)
(* ModernExportModel and the handlers of App that drive it                 *)
(***************************************************************************)
MaxRequests == 2
MaxRecords == 2

ErrorMessages == {<<"S","e","s","s","i","o","n"," ","e","x","p","i","r","e","d">>}
\* the id of the i-th record of a batch
RecordId(i) == <<"0","0","1">> \o NatToString(i)

\* what the REST API answers
SObjects == <<Object(<<"A","c","c","o","u","n","t">>, <<"A","c","c","o","u","n","t">>), Object(<<"C","o","n","t","a","c","t">>, <<"C","o","n","t","a","c","t">>)>>
Describe(objectName) ==
  IF objectName = <<"A","c","c","o","u","n","t">>
  THEN <<Field(<<"I","d">>, TRUE), Field(<<"N","a","m","e">>, FALSE)>>
  ELSE <<Field(<<"I","d">>, TRUE), Field(<<"E","m","a","i","l">>, FALSE)>>

\* a call of sfConn.rest: what it asks for and which await takes its outcome
Request(kind, arg, by) == [kind |-> kind, arg |-> arg, by |-> by]

Without(seq, i) == SubSeq(seq, 1, i - 1) \o SubSeq(seq, i + 1, Len(seq))

\* lines 1753-1769: the model is made and loadObjectMetadata() runs up to its
\* await before any event is handled
Init ==
  /\ queryBuilder = NewQueryBuilder
  /\ model = [NewModel EXCEPT !.isLoading = TRUE]
  /\ requests = <<Request("sobjects", <<>>, "loadObjectMetadata")>>
  /\ batch = "idle"
  /\ built = None
  /\ FormatIdle
  /\ TextIdle
  /\ StoreIdle
  /\ UiIdle

\* executeQuery(query) up to its await
executeQueryStart_mutKeepsError(query, by) ==
  /\ model' = [model EXCEPT !.isLoading = TRUE]
  /\ requests' = Append(requests, Request("query", query, by))

executeQueryStart(query, by) ==
  /\ model' = [model EXCEPT !.isLoading = TRUE, !.error = None]
  /\ requests' = Append(requests, Request("query", query, by))

\* the Execute Query button (lines 1709-1715)
ExecuteQueryButton ==
  /\ Len(requests) < MaxRequests
  /\ executeQueryStart(buildQuery(queryBuilder), "executeQuery")
  /\ UNCHANGED <<queryBuilder, batch, built, formatVars, textVars, storeVars, uiVars>>

\* Ctrl/Cmd + Enter (lines 322-327)
CtrlEnter ==
  /\ Len(requests) < MaxRequests
  /\ executeQueryStart(buildQuery(queryBuilder), "executeQuery")
  /\ UNCHANGED <<queryBuilder, batch, built, formatVars, textVars, storeVars, uiVars>>

\* a click on an object of the ObjectSelector (lines 537-543, 1625-1631):
\* onSelect, then loadFieldMetadata(objectName) up to its await
SelectObject(i) ==
  /\ model.objectMetadata # None
  /\ i \in 1..Len(model.objectMetadata[1])
  /\ Len(requests) < MaxRequests
  /\ LET name == model.objectMetadata[1][i].name
     IN /\ queryBuilder' = [queryBuilder EXCEPT !.selectedObject = Some(name)]
        /\ IF name # <<>>
           THEN /\ model' = [model EXCEPT !.isLoading = TRUE, !.error = None]
                /\ requests' = Append(requests, Request("describe", name, "loadFieldMetadata"))
           ELSE UNCHANGED <<model, requests>>
  /\ UNCHANGED <<batch, built, formatVars, textVars, storeVars, uiVars>>

\* the end of the URL of a record: `${selectedObject}/${id}`, where the
\* template writes null for no object
recordPath(selectedObject, id) ==
  (IF selectedObject = None THEN <<"n","u","l","l">> ELSE selectedObject[1]) \o <<"/">> \o id

\* executeBatchOperation(operation, recordIds, fieldValues) up to its first
\* await: one request per record id; Promise.all of no request is fulfilled
\* at once, and the refresh query follows in the same turn
ExecuteBatchOperation(operation, n) ==
  /\ batch = "idle"
  /\ operation \in {"delete", "update"}
  /\ n \in 0..MaxRecords
  /\ Len(requests) + n <= MaxRequests
  /\ Len(requests) < MaxRequests
  /\ IF n = 0
     THEN /\ executeQueryStart(buildQuery(queryBuilder), "batchRefresh")
          /\ batch' = "refreshing"
     ELSE /\ model' = [model EXCEPT !.isLoading = TRUE, !.error = None]
          /\ requests' = requests \o
               [i \in 1..n |->
                  Request(operation, recordPath(queryBuilder.selectedObject, RecordId(i)),
                          "batch")]
          /\ batch' = "awaiting"
  /\ UNCHANGED <<queryBuilder, built, formatVars, textVars, storeVars, uiVars>>

\* the request at position i is fulfilled
Resolve(i) ==
  /\ i \in 1..Len(requests)
  /\ LET r == requests[i]
         rest == Without(requests, i)
     IN CASE r.by = "loadObjectMetadata" ->
               /\ model' = [model EXCEPT !.objectMetadata = Some(SObjects),
                                         !.isLoading = FALSE]
               /\ requests' = rest
               /\ UNCHANGED batch
          [] r.by = "loadFieldMetadata" ->
               /\ model' = [model EXCEPT !.fieldMetadata = Some(Describe(r.arg)),
                                         !.isLoading = FALSE]
               /\ requests' = rest
               /\ UNCHANGED batch
          [] r.by = "executeQuery" ->
               /\ model' = [model EXCEPT !.results = Some(r.arg), !.isLoading = FALSE]
               /\ requests' = rest
               /\ UNCHANGED batch
          [] r.by = "batchRefresh" ->
               \* executeQuery's finally, then executeBatchOperation's
               /\ model' = [model EXCEPT !.results = Some(r.arg), !.isLoading = FALSE]
               /\ requests' = rest
               /\ batch' = "idle"
          [] r.by = "batch" ->
               IF \E j \in 1..Len(rest) : rest[j].by = "batch"
               THEN /\ requests' = rest
                    /\ UNCHANGED <<model, batch>>
               ELSE \* Promise.all is fulfilled: the refresh (lines 481-483)
                    /\ model' = [model EXCEPT !.isLoading = TRUE, !.error = None]
                    /\ requests' =
                         Append(rest, Request("query", buildQuery(queryBuilder), "batchRefresh"))
                    /\ batch' = "refreshing"
          [] r.by = "nobody" ->
               /\ requests' = rest
               /\ UNCHANGED <<model, batch>>
  /\ UNCHANGED <<queryBuilder, built, formatVars, textVars, storeVars, uiVars>>

\* the request at position i is rejected with an error carrying message
Reject_mutSwallowed(i, message) ==
  /\ i \in 1..Len(requests)
  /\ requests' = Without(requests, i)
  /\ batch' = IF requests[i].by \in {"batch", "batchRefresh"} THEN "idle" ELSE batch
  /\ model' = [model EXCEPT !.isLoading = FALSE]
  /\ UNCHANGED <<queryBuilder, built, formatVars, textVars, storeVars, uiVars>>

Reject(i, message) ==
  /\ i \in 1..Len(requests)
  /\ LET r == requests[i]
         rest == Without(requests, i)
     IN CASE r.by \in {"loadObjectMetadata", "loadFieldMetadata", "executeQuery"} ->
               /\ model' = [model EXCEPT !.error = Some(message), !.isLoading = FALSE]
               /\ requests' = rest
               /\ UNCHANGED batch
          [] r.by = "batchRefresh" ->
               /\ model' = [model EXCEPT !.error = Some(message), !.isLoading = FALSE]
               /\ requests' = rest
               /\ batch' = "idle"
          [] r.by = "batch" ->
               \* Promise.all is rejected: catch and finally run; the other
               \* requests stay in flight and nobody awaits them any more
               /\ model' = [model EXCEPT !.error = Some(message), !.isLoading = FALSE]
               /\ requests' = [j \in 1..Len(rest) |->
                                 IF rest[j].by = "batch"
                                 THEN [rest[j] EXCEPT !.by = "nobody"] ELSE rest[j]]
               /\ batch' = "idle"
          [] r.by = "nobody" ->
               /\ requests' = rest
               /\ UNCHANGED <<model, batch>>
  /\ UNCHANGED <<queryBuilder, built, formatVars, textVars, storeVars, uiVars>>

Next ==
  \/ ExecuteQueryButton
  \/ CtrlEnter
  \/ \E i \in 1..Len(SObjects) : SelectObject(i)
  \/ \E value \in LimitInputs : LimitInput(value)
  \/ \E operation \in {"delete", "update"}, n \in 0..MaxRecords :
       ExecuteBatchOperation(operation, n)
  \/ \E i \in 1..MaxRequests : Resolve(i)
  \/ \E i \in 1..MaxRequests, message \in ErrorMessages : Reject(i, message)

Spec == Init /\ [][Next]_vars

\* C7: no query without a FROM clause is sent to the REST query endpoint,
\* whether by the Execute Query button, by Ctrl/Cmd+Enter or by the refresh
\* that ends a batch operation.
C7_NoQueryWithoutFrom ==
  \A i \in 1..Len(requests) :
    requests[i].kind = "query" => includes(requests[i].arg, <<" ","F","R","O","M"," ">>)

(***************************************************************************)
(* Claims about buildQuery, under SpecBuilder                              *)
(***************************************************************************)

\* the number of places where p occurs in s
Occurrences(s, p) == Cardinality({i \in 1..Len(s) : StartsAt(s, i, p)})

EndsWith(s, p) == StartsAt(s, Len(s) - Len(p) + 1, p)

\* the parts of a list written one after the other, sep between neighbours
RECURSIVE Separated(_, _)
Separated(parts, sep) ==
  IF Len(parts) = 0 THEN <<>>
  ELSE IF Len(parts) = 1 THEN parts[1]
  ELSE Separated(SubSeq(parts, 1, Len(parts) - 1), sep) \o sep \o parts[Len(parts)]

C2_SelectFromWhere ==
  built # None =>
    LET q == built[1]
        this == queryBuilder
        fieldList == IF this.selectedFields = <<>> THEN <<"I","d">>
                     ELSE Separated(this.selectedFields, <<","," ">>)
        head == <<"S","E","L","E","C","T"," ">> \o fieldList
        from == IF this.selectedObject # None
                THEN <<" ","F","R","O","M"," ">> \o this.selectedObject[1] ELSE <<>>
    IN /\ StartsAt(q, 1, head \o from)
       /\ (includes(q, <<" ","F","R","O","M"," ">>) <=> this.selectedObject # None)
       /\ (StartsAt(q, Len(head \o from) + 1, <<" ","W","H","E","R","E"," ">>) <=> this.conditions # <<>>)
       /\ (includes(q, <<"W","H","E","R","E">>) <=> this.conditions # <<>>)
       /\ (this = [NewQueryBuilder EXCEPT !.selectedObject = Some(<<"A","c","c","o","u","n","t">>)]
             => q = <<"S","E","L","E","C","T"," ","I","d"," ","F","R","O","M"," ","A","c","c","o","u","n","t">>)

C2_Witness ==
  /\ built = Some(<<"S","E","L","E","C","T"," ","I","d"," ","F","R","O","M"," ","A","c","c","o","u","n","t">>)
  /\ queryBuilder.conditions = <<>>

\* C3: with at least one condition, the boolean operator occurs
\* (groups - 1) + sum over the groups of (conditions of the group - 1) times,
\* which is conditions - 1 times, and it is the global groupOperator each time.
C3_OperatorCount ==
  (built # None /\ queryBuilder.conditions # <<>>) =>
    LET q == built[1]
        this == queryBuilder
        n == Len(this.conditions)
        groups == {groupKey(this.conditions[i]) : i \in 1..n}
        size(g) == Cardinality({i \in 1..n : groupKey(this.conditions[i]) = g})
        RECURSIVE inner(_)
        inner(G) == IF G = {} THEN 0
                    ELSE LET g == CHOOSE x \in G : TRUE
                         IN (size(g) - 1) + inner(G \ {g})
        other == IF this.groupOperator = <<"A","N","D">> THEN <<"O","R">> ELSE <<"A","N","D">>
    IN /\ Occurrences(q, <<" ">> \o this.groupOperator \o <<" ">>)
            = (Cardinality(groups) - 1) + inner(groups)
       /\ Occurrences(q, <<" ">> \o this.groupOperator \o <<" ">>) = n - 1
       /\ Occurrences(q, <<" ">> \o other \o <<" ">>) = 0

C3_Witness ==
  /\ built # None
  /\ queryBuilder.groupOperator = <<"O","R">>
  /\ Len(queryBuilder.conditions) = 3
  /\ Cardinality({groupKey(queryBuilder.conditions[i]) : i \in 1..3}) = 2

\* the text between " WHERE " and the ORDER BY or LIMIT clause or the end
WherePart(q) ==
  LET starts == {i \in 1..Len(q) : StartsAt(q, i, <<" ","W","H","E","R","E"," ">>)}
      first == CHOOSE i \in starts : \A j \in starts : i <= j
      from == first + 7
      ends == {i \in from..Len(q) :
                 StartsAt(q, i, <<" ","O","R","D","E","R"," ","B","Y"," ">>) \/ StartsAt(q, i, <<" ","L","I","M","I","T"," ">>)}
      last == IF ends = {} THEN Len(q)
              ELSE (CHOOSE i \in ends : \A j \in ends : i <= j) - 1
  IN SubSeq(q, from, last)

\* C4: the conditions are partitioned by group id, those without one in one
\* default group; a group is its conditions joined by the global operator, in
\* parentheses exactly when it has more than one condition; the groups are
\* joined by the same operator (in some order of the groups).
C4_Grouping ==
  (built # None /\ queryBuilder.conditions # <<>>) =>
    LET q == built[1]
        this == queryBuilder
        n == Len(this.conditions)
        idOf(c) == IF c.groupId = None THEN <<"d","e","f","a","u","l","t">> ELSE c.groupId[1]
        ids == {idOf(this.conditions[i]) : i \in 1..n}
        op == <<" ">> \o this.groupOperator \o <<" ">>
        members(g) == SelectSeq(this.conditions, LAMBDA c : idOf(c) = g)
        rendered(g) ==
          LET m == members(g)
              inside == Separated([i \in 1..Len(m) |-> conditionString(this, m[i])], op)
          IN IF Len(m) > 1 THEN <<"(">> \o inside \o <<")">> ELSE inside
        orders == {f \in [1..Cardinality(ids) -> ids] :
                     \A i, j \in 1..Cardinality(ids) : f[i] = f[j] => i = j}
    IN \E f \in orders :
         WherePart(q) = Separated([i \in 1..Cardinality(ids) |-> rendered(f[i])], op)

C4_Witness ==
  /\ built # None
  /\ Len(queryBuilder.conditions) = 3
  /\ \E i, j, k \in 1..3 :
       /\ i # j
       /\ queryBuilder.conditions[i].groupId = None
       /\ queryBuilder.conditions[j].groupId = None
       /\ queryBuilder.conditions[k].groupId # None

\* C6: " ORDER BY " and the entries as "field direction" joined with ", "
\* appear exactly when orderBy is not empty; " LIMIT n" follows exactly when
\* limit is set and truthy, so a limit of 0 typed in the limit input gives no
\* LIMIT clause; LIMIT, when present, ends the query.
C6_OrderByLimit ==
  built # None =>
    LET q == built[1]
        this == queryBuilder
        order == IF this.orderBy # <<>>
                 THEN <<" ","O","R","D","E","R"," ","B","Y"," ">>
                      \o Separated([i \in 1..Len(this.orderBy) |->
                           this.orderBy[i].field \o <<" ">> \o this.orderBy[i].direction], <<","," ">>)
                 ELSE <<>>
        limited == this.limit # None /\ this.limit[1] # 0
        lim == IF limited THEN <<" ","L","I","M","I","T"," ">> \o IntToString(this.limit[1]) ELSE <<>>
    IN /\ EndsWith(q, order \o lim)
       /\ (includes(q, <<" ","O","R","D","E","R"," ","B","Y"," ">>) <=> this.orderBy # <<>>)
       /\ (includes(q, <<"L","I","M","I","T">>) <=> limited)
       /\ (this.limit = Some(0) => ~includes(q, <<"L","I","M","I","T">>))

\* a 0 typed in the limit input, then the query built
C6_Witness ==
  /\ built # None
  /\ queryBuilder.limit = Some(0)
  /\ queryBuilder.orderBy # <<>>

C6_WitnessLimit ==
  /\ built # None
  /\ queryBuilder.limit = Some(7)
  /\ EndsWith(built[1], <<" ","O","R","D","E","R"," ","B","Y"," ","C","r","e","a","t","e","d","D","a","t","e"," ","D","E","S","C",","," ","N","a","m","e"," ","A","S","C"," ","L","I","M","I","T"," ","7">>)

(***************************************************************************)
(* The formatting specification: formatValue on values and type tags, and  *)
(* the built of a builder with fields {Name}, object Contact and one       *)
(* condition on Email                                                      *)
(***************************************************************************)
TypeTags ==
  { "string", "textarea", "url", "email", "phone", "boolean", "number",
    "currency", "percent", "date", "datetime",
    "reference",      \* a tag the switch does not list
    "undefined" }     \* no tag

ValuePool ==
  { <<"a","@","b",".","c","o","m">>, <<"O","'","B","r","i","e","n">>, <<"i","t","'","s"," ","5"," ","o","'","c","l","o","c","k">>, <<"5">>, <<"t","r","u","e">>, <<"2","0","2","4","-","0","1","-","3","1">>,
    <<"'","2","0","2","4","-","0","1","-","3","1","'">>, <<>> }

ContactBuilder ==
  [NewQueryBuilder EXCEPT !.selectedFields = <<<<"N","a","m","e">>>>,
                          !.selectedObject = Some(<<"C","o","n","t","a","c","t">>)]

FormatInit ==
  /\ queryBuilder = ContactBuilder
  /\ built = None
  /\ fmtArgs = None
  /\ fmtResult = None
  /\ TextIdle
  /\ AppIdle
  /\ StoreIdle
  /\ UiIdle

\* a call formatValue(value, type)
FormatValue(value, type) ==
  /\ fmtArgs' = Some([value |-> value, type |-> type])
  /\ fmtResult' = Some(formatValue(value, type))
  /\ UNCHANGED <<builderVars, textVars, appVars, storeVars, uiVars>>

\* queryBuilder.conditions = [{field: "Email", operator: "=", value, type}]
SetCondition(value, type) ==
  /\ queryBuilder' = [queryBuilder EXCEPT
       !.conditions = <<Condition(<<"E","m","a","i","l">>, <<"=">>, value, type, None)>>]
  /\ built' = None
  /\ UNCHANGED <<formatVars, textVars, appVars, storeVars, uiVars>>

FormatNext ==
  \/ \E value \in ValuePool, type \in TypeTags : FormatValue(value, type)
  \/ \E value \in ValuePool, type \in TypeTags : SetCondition(value, type)
  \/ BuildQuery

SpecFormat == FormatInit /\ [][FormatNext]_vars

\* r is v in single quotes with every single quote of v behind a backslash
RECURSIVE DropEscapes(_)
DropEscapes(body) ==
  IF Len(body) = 0 THEN <<>>
  ELSE IF Len(body) >= 2 /\ body[1] = "\\" /\ body[2] = "'"
       THEN <<"'">> \o DropEscapes(SubSeq(body, 3, Len(body)))
       ELSE <<body[1]>> \o DropEscapes(Tail(body))

QuotedEscaped(r, v) ==
  /\ Len(r) >= 2
  /\ r[1] = "'"
  /\ r[Len(r)] = "'"
  /\ LET body == SubSeq(r, 2, Len(r) - 1)
     IN /\ \A i \in 1..Len(body) : body[i] = "'" => (i > 1 /\ body[i - 1] = "\\")
        /\ Len(body) = Len(v) + Cardinality({i \in 1..Len(v) : v[i] = "'"})
        /\ DropEscapes(body) = v

\* C5: formatValue follows the table: string, textarea, url, email, phone and
\* any other or missing type give the value in single quotes with every single
\* quote escaped by a backslash; boolean, number, currency, percent and
\* datetime give the value as it is; date gives it in single quotes unless it
\* contains a quote.  Fields {Name}, object Contact and Email = a@b.com of
\* type email render SELECT Name FROM Contact WHERE Email = 'a@b.com'.
C5_FormatValueTable ==
  /\ fmtArgs # None =>
       LET v == fmtArgs[1].value
           t == fmtArgs[1].type
           r == fmtResult[1]
       IN /\ t \in {"string", "textarea", "url", "email", "phone"} => QuotedEscaped(r, v)
          /\ t \in {"boolean", "number", "currency", "percent"} => r = v
          /\ t = "date" => r = (IF \E i \in 1..Len(v) : v[i] = "'" THEN v
                                ELSE <<"'">> \o v \o <<"'">>)
          /\ t = "datetime" => r = v
          /\ t \in {"reference", "undefined"} => QuotedEscaped(r, v)
          /\ (v = <<"O","'","B","r","i","e","n">> /\ t = "string") => r = <<"'","O","\\","'","B","r","i","e","n","'">>
          /\ (v = <<"5">> /\ t = "number") => r = <<"5">>
  /\ (/\ built # None
      /\ queryBuilder.conditions = <<Condition(<<"E","m","a","i","l">>, <<"=">>, <<"a","@","b",".","c","o","m">>, "email", None)>>)
       => built[1] = <<"S","E","L","E","C","T"," ","N","a","m","e"," ","F","R","O","M"," ","C","o","n","t","a","c","t"," ","W","H","E","R","E"," ","E","m","a","i","l"," ","="," ","'","a","@","b",".","c","o","m","'">>

C5_Witness ==
  /\ fmtArgs = Some([value |-> <<"i","t","'","s"," ","5"," ","o","'","c","l","o","c","k">>, type |-> "phone"])
  /\ fmtResult = Some(<<"'","i","t","\\","'","s"," ","5"," ","o","\\","'","c","l","o","c","k","'">>)
  /\ built = Some(<<"S","E","L","E","C","T"," ","N","a","m","e"," ","F","R","O","M"," ","C","o","n","t","a","c","t"," ","W","H","E","R","E"," ","E","m","a","i","l"," ","="," ","'","a","@","b",".","c","o","m","'">>)

(***************************************************************************)
(* Claims about analyzeQuery and validateQuery, under SpecText             *)
(***************************************************************************)
\* does s hold p somewhere, ignoring case
Holds(s, p) == \E i \in 1..Len(s) : StartsAtI(s, i, p)

\* the text after the first WHERE and its white space, up to the white space
\* before ORDER BY or LIMIT or to the end: None when no WHERE is followed by
\* white space
ExtractedWhere(q) ==
  LET wheres == {i \in 1..Len(q) : StartsAtI(q, i, <<"w","h","e","r","e">>) /\ i + 5 <= Len(q)
                                     /\ IsSpace(q[i + 5])}
  IN IF wheres = {} THEN None
     ELSE LET w == Min(wheres)
              solid == {j \in (w + 5)..Len(q) : ~IsSpace(q[j])}
              from == IF solid = {} THEN Len(q) + 1 ELSE Min(solid)
              closes(e) ==
                /\ IsSpace(q[e])
                /\ \E j \in (e + 1)..Len(q) :
                     /\ ~IsSpace(q[j])
                     /\ \A x \in e..(j - 1) : IsSpace(q[x])
                     /\ (StartsAtI(q, j, <<"o","r","d","e","r"," ","b","y">>) \/ StartsAtI(q, j, <<"l","i","m","i","t">>))
              ends == {e \in from..Len(q) : closes(e)}
          IN Some(SubSeq(q, from, IF ends = {} THEN Len(q) ELSE Min(ends) - 1))

\* the suggestions the tokens of the extracted WHERE clause call for
ExpectedNotIndexed(q, fieldMetadata) ==
  IF fieldMetadata = None THEN <<>>
  ELSE LET where == ExtractedWhere(q)
       IN IF where = None THEN <<>>
          ELSE LET tokens == tokensFrom(where[1], 1)
                   fields == fieldMetadata[1]
                   flagged == SelectSeq(tokens, LAMBDA t :
                     \E i \in 1..Len(fields) : fields[i].name = t /\ ~fields[i].indexed)
               IN [i \in 1..Len(flagged) |-> NotIndexedSuggestion(flagged[i])]

HasSelectStar(q) ==
  \E i \in 1..Len(q) :
    /\ StartsAtI(q, i, <<"s","e","l","e","c","t">>)
    /\ \E j \in (i + 7)..Len(q) :
         /\ q[j] = "*"
         /\ \A x \in (i + 6)..(j - 1) : IsSpace(q[x])
NoWhereNoLimit(q) == ~Holds(q, <<"w","h","e","r","e">>) /\ ~Holds(q, <<"l","i","m","i","t">>)
OrderByNoLimit(q) == Holds(q, <<"o","r","d","e","r"," ","b","y">>) /\ ~Holds(q, <<"l","i","m","i","t">>)

\* the result is the suggestions of the four checks in their order, each
\* present exactly when its condition holds
ChecksInOrder(q, fieldMetadata, result) ==
  result = (IF HasSelectStar(q) THEN <<SelectStarSuggestion>> ELSE <<>>)
           \o (IF NoWhereNoLimit(q) THEN <<TooManySuggestion>> ELSE <<>>)
           \o ExpectedNotIndexed(q, fieldMetadata)
           \o (IF OrderByNoLimit(q) THEN <<OrderBySuggestion>> ELSE <<>>)

AllFourFire(result) ==
  /\ \E i \in 1..Len(result) : result[i] = SelectStarSuggestion
  /\ \E i \in 1..Len(result) : result[i] = TooManySuggestion
  /\ \E i \in 1..Len(result) :
       result[i].severity = "info" /\ result[i] # OrderBySuggestion
  /\ \E i \in 1..Len(result) : result[i] = OrderBySuggestion

\* C8 as stated: the four checks are independent, their suggestions come in
\* the order of the checks, and all four can fire on one query.
C8_AllFourCanFire ==
  /\ suggestions # None =>
       ChecksInOrder(input[1].query, input[1].fieldMetadata, suggestions[1])
  /\ \E i \in TextInputs :
       AllFourFire(analyzeQuery(i.query, i.objectMetadata, i.fieldMetadata))

\* C8, amended: the suggestions come in the order of the checks, each check
\* firing exactly when its own condition holds; checks (2) and (3) never fire
\* on the same query, so at most three checks fire at once; SELECT * FROM
\* Account gets exactly one warning about SELECT *.
C8_ChecksInOrder ==
  suggestions # None =>
    LET q == input[1].query
        r == suggestions[1]
    IN /\ ChecksInOrder(q, input[1].fieldMetadata, r)
       /\ ~(NoWhereNoLimit(q) /\ ExpectedNotIndexed(q, input[1].fieldMetadata) # <<>>)
       /\ ~AllFourFire(r)
       /\ (q = <<"S","E","L","E","C","T"," ","*"," ","F","R","O","M"," ","A","c","c","o","u","n","t">> =>
             /\ Cardinality({i \in 1..Len(r) : r[i] = SelectStarSuggestion}) = 1
             /\ r[1] = SelectStarSuggestion
             /\ r[1].type = "performance" /\ r[1].severity = "warning")

\* checks (1), (3) and (4) fire on one query
C8_Witness ==
  /\ suggestions # None
  /\ input[1].query = <<"S","E","L","E","C","T"," ","*"," ","F","R","O","M"," ","A","c","c","o","u","n","t"," ","W","H","E","R","E"," ","N","a","m","e"," ","="," ","'","x","'"," ","O","R","D","E","R"," ","B","Y"," ","N","a","m","e">>
  /\ suggestions[1] =
       <<SelectStarSuggestion, NotIndexedSuggestion(<<"N","a","m","e">>), OrderBySuggestion>>

\* C9: one info suggestion "not indexed" per token of the extracted WHERE
\* clause that names a field whose indexed flag is false, in token order; none
\* for a token that names an indexed field or no field; none at all without a
\* WHERE clause or without fieldMetadata.
C9_NotIndexedPerToken ==
  suggestions # None =>
    LET q == input[1].query
        fm == input[1].fieldMetadata
        found == SelectSeq(suggestions[1],
                   LAMBDA x : x.severity = "info" /\ x # OrderBySuggestion)
    IN /\ found = ExpectedNotIndexed(q, fm)
       /\ (fm = None \/ ~Holds(q, <<"w","h","e","r","e">>)) => found = <<>>

\* Email is named twice in the WHERE clause (once inside a string literal) and
\* is not indexed; Account.Name is one token and names no field
C9_Witness ==
  /\ suggestions # None
  /\ input[1].fieldMetadata # None
  /\ SelectSeq(suggestions[1], LAMBDA x : x.severity = "info" /\ x # OrderBySuggestion)
       = <<NotIndexedSuggestion(<<"E","m","a","i","l">>), NotIndexedSuggestion(<<"E","m","a","i","l">>)>>

\* C10: a query that lacks the substring SELECT or the substring FROM (case
\* matters) gets the one error "Query must include SELECT and FROM clauses"
\* and nothing else; a query with both never gets that error.
C10_FailFast ==
  errors # None =>
    LET q == input[1].query
        both == (\E i \in 1..Len(q) : StartsAt(q, i, <<"S","E","L","E","C","T">>))
                /\ (\E i \in 1..Len(q) : StartsAt(q, i, <<"F","R","O","M">>))
    IN /\ ~both => errors[1] = <<<<"Q","u","e","r","y"," ","m","u","s","t"," ","i","n","c","l","u","d","e"," ","S","E","L","E","C","T"," ","a","n","d"," ","F","R","O","M"," ","c","l","a","u","s","e","s">>>>
       /\ both => \A i \in 1..Len(errors[1]) :
                    errors[1][i] # <<"Q","u","e","r","y"," ","m","u","s","t"," ","i","n","c","l","u","d","e"," ","S","E","L","E","C","T"," ","a","n","d"," ","F","R","O","M"," ","c","l","a","u","s","e","s">>

\* lower-case select and from, an unknown field list and an open parenthesis:
\* one error only
C10_Witness ==
  /\ errors = Some(<<StructureError>>)
  /\ input[1].query = <<"s","e","l","e","c","t"," "," ","*"," ","f","r","o","m"," ","A","c","c","o","u","n","t"," ","W","H","E","R","E"," ","(","A"," ","="," ","1">>

C10_WitnessOneMissing ==
  /\ errors = Some(<<StructureError>>)
  /\ input[1].query = <<"S","E","L","E","C","T"," ","F","o","o"," ","W","H","E","R","E"," ","(","A"," ","="," ","1">>

\* the case-sensitive test of validateQuery's first check
HasSelectAndFrom(q) ==
  (\E i \in 1..Len(q) : StartsAt(q, i, <<"S","E","L","E","C","T">>)) /\ (\E i \in 1..Len(q) : StartsAt(q, i, <<"F","R","O","M">>))

\* the word that follows the first FROM (any case) that white space and a word
\* follow: None when there is none
NameAfterFrom(q) ==
  LET at == {i \in 1..Len(q) :
               /\ StartsAtI(q, i, <<"f","r","o","m">>)
               /\ \E j \in (i + 5)..Len(q) :
                    IsWord(q[j]) /\ \A x \in (i + 4)..(j - 1) : IsSpace(q[x])}
  IN IF at = {} THEN None
     ELSE LET i == Min(at)
              first == Min({j \in (i + 5)..Len(q) : IsWord(q[j])})
              last == Max({j \in first..Len(q) : \A x \in first..j : IsWord(q[x])})
          IN Some(SubSeq(q, first, last))

\* the entries of the SELECT list, trimmed, in list order
SelectList(q) ==
  LET m == matchSelect(q)
  IN IF m = None THEN <<>>
     ELSE LET parts == split(m[1]) IN [i \in 1..Len(parts) |-> trim(parts[i])]

IsKnown(name, metadata) ==
  metadata # None /\ \E i \in 1..Len(metadata[1]) : metadata[1][i].name = name

\* C11: for a query with SELECT and FROM, the errors are: the object error
\* when the name after FROM is not in objectMetadata, then, in the order of
\* the SELECT list, one error per entry that is * or that is neither Id nor in
\* fieldMetadata; only the parentheses error can follow them.
C11_ErrorOrder ==
  (errors # None /\ HasSelectAndFrom(input[1].query)) =>
    LET q == input[1].query
        name == NameAfterFrom(q)
        objectPart ==
          IF name # None /\ ~IsKnown(name[1], Some(input[1].objectMetadata))
          THEN <<ObjectError(name[1])>> ELSE <<>>
        flagged == SelectSeq(SelectList(q), LAMBDA f :
                     f = <<"*">> \/ (f # <<"I","d">> /\ ~IsKnown(f, input[1].fieldMetadata)))
        fieldPart == [i \in 1..Len(flagged) |->
                        IF flagged[i] = <<"*">> THEN WildcardError ELSE FieldError(flagged[i])]
    IN \/ errors[1] = objectPart \o fieldPart
       \/ errors[1] = objectPart \o fieldPart \o <<ParenthesesError>>

\* validateQuery('SELECT Foo FROM Unknown', objs, []): two errors
C11_Witness ==
  /\ input # None
  /\ input[1].query = <<"S","E","L","E","C","T"," ","F","o","o"," ","F","R","O","M"," ","U","n","k","n","o","w","n">>
  /\ input[1].fieldMetadata = Some(<<>>)
  /\ errors = Some(<<ObjectError(<<"U","n","k","n","o","w","n">>), FieldError(<<"F","o","o">>)>>)

\* Id passes and Name fails with no field metadata at all
C11_WitnessId ==
  /\ input # None
  /\ input[1].query = <<"S","E","L","E","C","T"," ","I","d",","," ","N","a","m","e"," ","F","R","O","M"," ","A","c","c","o","u","n","t">>
  /\ input[1].fieldMetadata = None
  /\ errors = Some(<<FieldError(<<"N","a","m","e">>)>>)

CountOf(s, c) == Cardinality({i \in 1..Len(s) : s[i] = c})

\* C12: for a query with SELECT and FROM, there is exactly one parentheses
\* error when the extracted WHERE clause has different numbers of ( and ),
\* whatever the difference, and none when the numbers are equal or no WHERE
\* clause is extracted.
C12_OneParenthesesError ==
  (errors # None /\ HasSelectAndFrom(input[1].query)) =>
    LET where == ExtractedWhere(input[1].query)
        found == Cardinality({i \in 1..Len(errors[1]) : errors[1][i] = ParenthesesError})
    IN found = IF where # None /\ CountOf(where[1], "(") # CountOf(where[1], ")")
               THEN 1 ELSE 0

\* two parentheses are left open: one error
C12_Witness ==
  /\ input # None
  /\ input[1].query = <<"S","E","L","E","C","T"," ","I","d",","," ","N","a","m","e"," ","F","R","O","M"," ","A","c","c","o","u","n","t"," ","W","H","E","R","E"," ","(","(","A"," ","="," ","1"," ","O","R","D","E","R"," ","B","Y"," ","N","a","m","e">>
  /\ input[1].fieldMetadata = Some(<<Field(<<"N","a","m","e">>, TRUE), Field(<<"E","m","a","i","l">>, FALSE)>>)
  /\ errors = Some(<<ParenthesesError>>)

C12_WitnessOne ==
  /\ input # None
  /\ input[1].query = <<"S","E","L","E","C","T"," ","I","d",","," ","N","a","m","e"," ","F","R","O","M"," ","A","c","c","o","u","n","t"," ","W","H","E","R","E"," ","(","A"," ","="," ","1">>
  /\ errors # None
  /\ Cardinality({i \in 1..Len(errors[1]) : errors[1][i] = ParenthesesError}) = 1

\* the partial token that ends the text after FROM and white space: None when
\* the text does not end so
PartialToken(q) ==
  LET at == {i \in 1..Len(q) :
               /\ StartsAtI(q, i, <<"f","r","o","m">>)
               /\ i + 4 <= Len(q) /\ IsSpace(q[i + 4])
               /\ \A j \in (i + 4)..Len(q) : IsSpace(q[j]) \/ IsWord(q[j])
               /\ \A j \in (i + 4)..Len(q), k \in (i + 4)..Len(q) :
                    (j < k /\ IsWord(q[j])) => IsWord(q[k])}
  IN IF at = {} THEN None
     ELSE LET i == Min(at)
              words == {j \in (i + 5)..Len(q) : IsWord(q[j])}
          IN Some(IF words = {} THEN <<>> ELSE SubSeq(q, Min(words), Len(q)))

EndsWithSelect(q) ==
  \E i \in 1..Len(q) :
    StartsAtI(q, i, <<"s","e","l","e","c","t">>) /\ \A j \in (i + 6)..Len(q) : IsSpace(q[j])

\* C13: the completions are the object suggestions followed by the field
\* suggestions.  Objects: when the text holds from and not where (any case)
\* and ends with FROM, white space and a partial token, the objects whose name
\* starts with the token ignoring case, each described by its label; none
\* otherwise.  Fields: when the text ends with SELECT and white space, if any,
\* and fieldMetadata is there, every field; none otherwise.
C13_SuggestModes ==
  suggested # None =>
    LET q == input[1].query
        om == input[1].objectMetadata
        fm == input[1].fieldMetadata
        token == PartialToken(q)
        objects ==
          IF Holds(q, <<"f","r","o","m">>) /\ ~Holds(q, <<"w","h","e","r","e">>) /\ token # None
          THEN SelectSeq(om, LAMBDA obj : StartsAtI(obj.name, 1, token[1]))
          ELSE <<>>
        fields == IF fm # None /\ EndsWithSelect(q) THEN fm[1] ELSE <<>>
        r == suggested[1]
    IN /\ Len(r) = Len(objects) + Len(fields)
       /\ \A i \in 1..Len(objects) :
            /\ r[i].type = "object"
            /\ r[i].text = objects[i].name
            /\ r[i].description = Some(objects[i].label)
       /\ \A i \in 1..Len(fields) :
            /\ r[Len(objects) + i].type = "field"
            /\ r[Len(objects) + i].text = fields[i].name

\* SELECT Id FROM Acc: the two objects whose names start with Acc
C13_Witness ==
  /\ input # None
  /\ input[1].query = <<"S","E","L","E","C","T"," ","I","d"," ","F","R","O","M"," ","A","c","c">>
  /\ suggested = Some(<<Completion("object", <<"A","c","c","o","u","n","t">>, Some(<<"A","c","c","o","u","n","t">>)),
                        Completion("object", <<"A","c","c","o","u","n","t","_","P","l","a","n","_","_","c">>, Some(<<"A","c","c","o","u","n","t"," ","P","l","a","n">>))>>)

\* both modes at once: FROM SELECT ends with a partial token and with SELECT
C13_WitnessBoth ==
  /\ input # None
  /\ input[1].query = <<"F","R","O","M"," ","S","E","L","E","C","T">>
  /\ input[1].fieldMetadata = Some(<<Field(<<"N","a","m","e">>, TRUE), Field(<<"E","m","a","i","l">>, FALSE)>>)
  /\ suggested = Some(<<Completion("object", <<"S","e","l","e","c","t","_","_","c">>, Some(<<"S","e","l","e","c","t","i","o","n">>)),
                        Completion("field", <<"N","a","m","e">>, None),
                        Completion("field", <<"E","m","a","i","l">>, None)>>)

(***************************************************************************)
(* JSON.stringify and JSON.parse, on the values the stores hold: null,     *)
(* booleans, integers, strings, arrays and objects.  Fractions, exponents  *)
(* and the escapes \b \f \uXXXX occur in no text of this model.            *)
(***************************************************************************)
\* the text of one character inside a JSON string
escapeChar(c) ==
  CASE c = "\"" -> <<"\\","\"">>
    [] c = "\\" -> <<"\\","\\">>
    [] c = "\n" -> <<"\\","n">>
    [] c = "\r" -> <<"\\","r">>
    [] c = "\t" -> <<"\\","t">>
    [] OTHER -> <<c>>

\* JSON.stringify of a string
quote(s) == <<"\"">> \o flatten([i \in 1..Len(s) |-> escapeChar(s[i])]) \o <<"\"">>

\* JSON.stringify(x): a property whose value is undefined is left out, an
\* array element that is undefined is written null
RECURSIVE stringify(_)
stringify(x) ==
  CASE typeOf(x) \in {"null", "undefined"} -> <<"n","u","l","l">>
    [] typeOf(x) = "boolean" -> IF valueOf(x) THEN <<"t","r","u","e">> ELSE <<"f","a","l","s","e">>
    [] typeOf(x) = "number" -> IntToString(valueOf(x))
    [] typeOf(x) = "string" -> quote(valueOf(x))
    [] typeOf(x) = "array" ->
         <<"[">> \o join([i \in 1..Len(valueOf(x)) |-> stringify(valueOf(x)[i])], <<",">>) \o <<"]">>
    [] typeOf(x) = "object" ->
         LET kept == SelectSeq(valueOf(x), LAMBDA p : typeOf(p[2]) # "undefined")
         IN <<"{">> \o join([i \in 1..Len(kept) |->
                            quote(kept[i][1]) \o <<":">> \o stringify(kept[i][2])], <<",">>)
            \o <<"}">>

\* obj[key]: undefined when obj has no such property
get(obj, key) ==
  IF typeOf(obj) = "object" /\ \E i \in 1..Len(valueOf(obj)) : valueOf(obj)[i][1] = key
  THEN valueOf(obj)[CHOOSE i \in 1..Len(valueOf(obj)) : valueOf(obj)[i][1] = key][2]
  ELSE JUndefined

\* the properties props after key is set to value: in place when the key is
\* there, at the end when it is new
setProp(props, key, value) ==
  IF \E i \in 1..Len(props) : props[i][1] = key
  THEN [i \in 1..Len(props) |-> IF props[i][1] = key THEN <<key, value>> ELSE props[i]]
  ELSE Append(props, <<key, value>>)

\* the properties of an object literal that sets the pairs one after another
RECURSIVE setAll(_, _)
setAll(props, pairs) ==
  IF pairs = <<>> THEN props
  ELSE setAll(setProp(props, pairs[1][1], pairs[1][2]), Tail(pairs))

\* what a parsing step gives: failure, or a value and the position after it
Fail == [ok |-> FALSE, value |-> JNull, next |-> 0]
Ok(value, next) == [ok |-> TRUE, value |-> value, next |-> next]

skipSpace(s, p) == p + spaceRun(s, p)

\* how many backslashes stand in a row just before position i, from p on
RECURSIVE slashesBefore(_, _, _)
slashesBefore(s, p, i) ==
  IF i - 1 >= p /\ s[i - 1] = "\\" THEN 1 + slashesBefore(s, p, i - 1) ELSE 0

\* the positions of the quotes of a text that no backslash escapes, ascending
quotesOf(s) ==
  SelectSeq([i \in 1..Len(s) |-> i],
            LAMBDA j : s[j] = "\"" /\ slashesBefore(s, 1, j) % 2 = 0)

\* the characters of the body of a JSON string, escapes resolved
decodeBody(body) ==
  LET escaped(i) == slashesBefore(body, 1, i) % 2 = 1
      kept == SelectSeq([i \in 1..Len(body) |-> i],
                        LAMBDA i : body[i] # "\\" \/ escaped(i))
      decoded(i) ==
        IF ~escaped(i) THEN body[i]
        ELSE CASE body[i] = "n" -> "\n" [] body[i] = "r" -> "\r" [] body[i] = "t" -> "\t"
               [] OTHER -> body[i]
  IN [k \in 1..Len(kept) |-> decoded(kept[k])]

\* is body the inside of a JSON string: no raw control character, and only
\* the escapes \" \\ \/ \n \r \t
bodyOk(body) ==
  \A i \in 1..Len(body) :
    /\ body[i] \notin {"\n", "\r", "\t"}
    /\ (body[i - 1 + (IF i = 1 THEN 1 ELSE 0)] = "\\" /\ slashesBefore(body, 1, i) % 2 = 1)
         => body[i] \in {"\"", "\\", "/", "n", "r", "t"}

\* a JSON string from p, after its opening quote, up to the quote at e
stringUpTo(s, p, e) ==
  IF ~bodyOk(SubSeq(s, p, e - 1)) THEN Fail
  ELSE IF \A i \in p..(e - 1) : s[i] # "\\" THEN Ok(SubSeq(s, p, e - 1), e + 1)
  ELSE Ok(decodeBody(SubSeq(s, p, e - 1)), e + 1)

\* the same, the closing quote being the first of quotes at or after p
parseChars(s, quotes, p) ==
  IF \E k \in 1..Len(quotes) : quotes[k] >= p
  THEN stringUpTo(s, p, quotes[CHOOSE k \in 1..Len(quotes) :
                                 quotes[k] >= p /\ (k = 1 \/ quotes[k - 1] < p)])
  ELSE Fail

\* the digits from p on: how many there are
RECURSIVE digitRun(_, _)
digitRun(s, p) ==
  IF p <= Len(s) /\ s[p] \in Range(Digits) THEN 1 + digitRun(s, p + 1) ELSE 0

\* an integer at p; a leading zero ends the number
parseNumber(s, p) ==
  LET negative == p <= Len(s) /\ s[p] = "-"
      from == IF negative THEN p + 1 ELSE p
      n == IF from <= Len(s) /\ s[from] = "0" THEN 1 ELSE digitRun(s, from)
      value == DigitsToNat(SubSeq(s, from, from + n - 1))
  IN IF n = 0 THEN Fail
     ELSE Ok(JNum(IF negative THEN -value ELSE value), from + n)

\* what was parsed, as a string, an array, an object
asString(r) == IF r.ok THEN Ok(JStr(r.value), r.next) ELSE Fail
asArray(r) == IF r.ok THEN Ok(JArr(r.value), r.next) ELSE Fail
asObject(r) == IF r.ok THEN Ok(JObj(setAll(<<>>, r.value)), r.next) ELSE Fail

RECURSIVE parseValueAt(_, _, _)
RECURSIVE itemAt(_, _, _, _)
RECURSIVE memberAt(_, _, _, _)

\* a JSON value that starts at q; quotes are the quotes of s
parseValueAt(s, quotes, q) ==
  IF q > Len(s) THEN Fail
  ELSE IF StartsAt(s, q, <<"n","u","l","l">>) THEN Ok(JNull, q + 4)
  ELSE IF StartsAt(s, q, <<"t","r","u","e">>) THEN Ok(JBool(TRUE), q + 4)
  ELSE IF StartsAt(s, q, <<"f","a","l","s","e">>) THEN Ok(JBool(FALSE), q + 5)
  ELSE IF s[q] = "-" \/ s[q] \in Range(Digits) THEN parseNumber(s, q)
  ELSE IF s[q] = "\"" THEN asString(parseChars(s, quotes, q + 1))
  ELSE IF s[q] = "["
  THEN IF StartsAt(s, skipSpace(s, q + 1), <<"]">>)
       THEN Ok(JArr(<<>>), skipSpace(s, q + 1) + 1)
       ELSE asArray(itemAt(s, quotes, <<>>, skipSpace(s, q + 1)))
  ELSE IF s[q] = "{"
  THEN IF StartsAt(s, skipSpace(s, q + 1), <<"}">>)
       THEN Ok(JObj(<<>>), skipSpace(s, q + 1) + 1)
       ELSE asObject(memberAt(s, quotes, <<>>, skipSpace(s, q + 1)))
  ELSE Fail

\* after the element item of an array and white space, at q: ] ends the
\* array, a comma goes on; acc are the elements before item
itemEnd(s, quotes, acc, item, q) ==
  IF ~item.ok \/ q > Len(s) THEN Fail
  ELSE IF s[q] = "]" THEN Ok(Append(acc, item.value), q + 1)
  ELSE IF s[q] = ","
  THEN itemAt(s, quotes, Append(acc, item.value), skipSpace(s, q + 1))
  ELSE Fail

\* the elements of an array from the element at p, up to and including ]
itemAfter(s, quotes, acc, item) ==
  itemEnd(s, quotes, acc, item, IF item.ok THEN skipSpace(s, item.next) ELSE 0)

itemAt(s, quotes, acc, p) == itemAfter(s, quotes, acc, parseValueAt(s, quotes, p))

\* after a member key: value and white space, at q: } ends the object, a
\* comma goes on; acc are the members before it
memberEnd(s, quotes, acc, key, value, q) ==
  IF ~value.ok \/ q > Len(s) THEN Fail
  ELSE IF s[q] = "}" THEN Ok(Append(acc, <<key.value, value.value>>), q + 1)
  ELSE IF s[q] = ","
  THEN memberAt(s, quotes, Append(acc, <<key.value, value.value>>), skipSpace(s, q + 1))
  ELSE Fail

memberAfterValue(s, quotes, acc, key, value) ==
  memberEnd(s, quotes, acc, key, value, IF value.ok THEN skipSpace(s, value.next) ELSE 0)

\* after the key of a member: white space, a colon and the value
memberAfterKey(s, quotes, acc, key) ==
  IF ~key.ok \/ ~StartsAt(s, skipSpace(s, key.next), <<":">>) THEN Fail
  ELSE memberAfterValue(s, quotes, acc, key,
                        parseValueAt(s, quotes, skipSpace(s, skipSpace(s, key.next) + 1)))

\* the members "key": value of an object from the key at k, up to and
\* including }
memberAt(s, quotes, acc, k) ==
  IF ~StartsAt(s, k, <<"\"">>) THEN Fail
  ELSE memberAfterKey(s, quotes, acc, parseChars(s, quotes, k + 1))

\* the whole text must be one value, white space around it allowed
parseEnd(text, r) ==
  IF r.ok /\ skipSpace(text, r.next) = Len(text) + 1 THEN r ELSE Fail

\* JSON.parse(text): ok is FALSE when it throws a SyntaxError
parse(text) == parseEnd(text, parseValueAt(text, quotesOf(text), skipSpace(text, 1)))

\* is x falsy
falsy(x) ==
  \/ typeOf(x) \in {"null", "undefined"}
  \/ typeOf(x) = "boolean" /\ ~valueOf(x)
  \/ typeOf(x) = "number" /\ valueOf(x) = 0
  \/ typeOf(x) = "string" /\ valueOf(x) = <<>>

\* n as text of three digits
pad3(n) ==
  <<Digits[((n \div 100) % 10) + 1], Digits[((n \div 10) % 10) + 1],
    Digits[(n % 10) + 1]>>

\* new Date(ms).toISOString(), in the first second after the epoch
toISOString(ms) == <<"1","9","7","0","-","0","1","-","0","1","T","0","0",":","0","0",":","0","0",".">> \o pad3(ms) \o <<"Z">>

(***************************************************************************)
(* SavedQueries and QueryHistory over localStorage                         *)
(***************************************************************************)
\* JSON.parse(...) || [], and [] when parse throws
orEmpty(r) ==
  IF ~r.ok THEN JArr(<<>>)
  ELSE IF falsy(r.value) THEN JArr(<<>>)
  ELSE r.value

\* getAll() of either class; getItem gives null for a key that is not there,
\* which parse reads as the text null
getAll(storage, storageKey) ==
  orEmpty(parse(IF storage[storageKey] = None THEN <<"n","u","l","l">> ELSE storage[storageKey][1]))

\* localStorage.setItem(key, text)
setItem(storage, key, text) == [storage EXCEPT ![key] = Some(text)]

\* the entry save(query) puts first: { id: Date.now(), ...query, timestamp }
savedEntry_mutNoSpread(query, now, later) ==
  JObj(setAll(<<>>, <<<<<<"i","d">>, JNum(now)>>>> \o
                    <<<<<<"t","i","m","e","s","t","a","m","p">>, JStr(toISOString(later))>>>>))

savedEntry(query, now, later) ==
  JObj(setAll(<<>>, <<<<<<"i","d">>, JNum(now)>>>> \o valueOf(query) \o
                    <<<<<<"t","i","m","e","s","t","a","m","p">>, JStr(toISOString(later))>>>>))

\* what a call leaves in the variable call
Called(op, arg, before, threw, returned, at) ==
  [op |-> op, arg |-> arg, before |-> before, threw |-> threw,
   returned |-> returned, at |-> at]

MaxClock == 1
MaxSaved == 2
MaxHistorySize == 2

\* the rest of save(query) once getAll() has returned saved; the call throws
\* a TypeError when saved has no unshift method
saveAfterGetAll(query, elapsed, saved) ==
  /\ typeOf(saved) = "array" => Len(valueOf(saved)) < MaxSaved
  /\ IF typeOf(saved) = "array"
     THEN /\ localStorage' =
               setItem(localStorage, SavedKey,
                       stringify(JArr(<<savedEntry(query, clock, clock + elapsed)>>
                                      \o valueOf(saved))))
          /\ call' = Called("save", query, saved, FALSE, JUndefined, clock)
     ELSE /\ call' = Called("save", query, saved, TRUE, JUndefined, clock)
          /\ UNCHANGED localStorage

\* SavedQueries.save(query); the clock is read twice, elapsed apart
Save(query, elapsed) ==
  /\ clock + elapsed <= MaxClock
  /\ clock' = clock + elapsed
  /\ saveAfterGetAll(query, elapsed, getAll(localStorage, SavedKey))
  /\ UNCHANGED <<queryHistory, builderVars, formatVars, textVars, appVars, uiVars>>

\* SavedQueries.getAll()
getAllCalled(result) == Called("getAll", JUndefined, result, FALSE, result, clock)

GetAllSaved ==
  /\ call' = getAllCalled(getAll(localStorage, SavedKey))
  /\ UNCHANGED <<localStorage, clock, queryHistory, builderVars, formatVars, textVars,
                 appVars, uiVars>>

\* the rest of delete(id) once getAll() has returned saved: filter is missing
\* on what is no array, and q.id throws on an element that is null
deleteAfterGetAll(id, saved) ==
  IF \/ typeOf(saved) # "array"
     \/ \E i \in 1..Len(valueOf(saved)) : typeOf(valueOf(saved)[i]) = "null"
  THEN /\ call' = Called("delete", id, saved, TRUE, JUndefined, clock)
       /\ UNCHANGED localStorage
  ELSE /\ localStorage' =
            setItem(localStorage, SavedKey,
                    stringify(JArr(SelectSeq(valueOf(saved),
                                             LAMBDA q : get(q, <<"i","d">>) # id))))
       /\ call' = Called("delete", id, saved, FALSE, JUndefined, clock)

\* SavedQueries.delete(id)
Delete(id) ==
  /\ deleteAfterGetAll(id, getAll(localStorage, SavedKey))
  /\ UNCHANGED <<clock, queryHistory, builderVars, formatVars, textVars, appVars, uiVars>>

\* time passes
Tick ==
  /\ clock < MaxClock
  /\ clock' = clock + 1
  /\ UNCHANGED <<localStorage, queryHistory, call, builderVars, formatVars, textVars,
                 appVars, uiVars>>

\* what the callers of save pass: saveCurrentQuery (name, query, object) and
\* the save dialog (name, description, query, object)
SavePool ==
  { JObj(<<<<<<"n","a","m","e">>, JStr(<<"Q","1">>)>>, <<<<"q","u","e","r","y">>, JStr(<<"S","E","L","E","C","T"," ","I","d">>)>>,
           <<<<"o","b","j","e","c","t">>, JNull>>>>),
    JObj(<<<<<<"n","a","m","e">>, JStr(<<"s","a","y"," ","\"","a","\\","b","\"">>)>>, <<<<"d","e","s","c","r","i","p","t","i","o","n">>, JStr(<<"t","w","o","\n","l","i","n","e","s">>)>>,
           <<<<"q","u","e","r","y">>, JStr(<<"S","E","L","E","C","T"," ","I","d"," ","F","R","O","M"," ","A","c","c","o","u","n","t">>)>>,
           <<<<"o","b","j","e","c","t">>, JStr(<<"A","c","c","o","u","n","t">>)>>>>),
    JObj(<<<<<<"n","a","m","e">>, JStr(<<"Q","3">>)>>, <<<<"d","e","s","c","r","i","p","t","i","o","n">>, JUndefined>>,
           <<<<"q","u","e","r","y">>, JStr(<<"S","E","L","E","C","T"," ","I","d"," ","F","R","O","M"," ","C","o","n","t","a","c","t">>)>>,
           <<<<"o","b","j","e","c","t">>, JStr(<<"C","o","n","t","a","c","t">>)>>>>) }

\* texts the key can hold when the page opens: texts that are no JSON, JSON
\* that is no array, and lists
MalformedTexts == {<<>>, <<"{","o","o","p","s">>, <<"[","1",",">>}
OtherJsonTexts == {<<"n","u","l","l">>, <<"0">>, <<"f","a","l","s","e">>, <<"5">>, <<"\"","x","\"">>, <<"{","}">>, <<"[","n","u","l","l","]">>}
SavedTexts ==
  { <<"[","]">>, <<" ","["," ","]"," ">>,
    <<"[","{","\"","i","d","\"",":"," ","1",","," ","\"","n","a","m","e","\"",":"," ","\"","o","l","d","\"",","," ","\"","q","u","e","r","y","\"",":"," ","\"","S","E","L","E","C","T"," ","I","d","\"",","," ","\"","o","b","j","e","c","t","\"",":"," ","n","u","l","l",","," ","\"","t","i","m","e","s","t","a","m","p","\"",":"," ","\"","1","9","7","0","-","0","1","-","0","1","T","0","0",":","0","0",":","0","0",".","0","0","1","Z","\"","}","]">> }

SavedInit ==
  /\ localStorage \in
       {[EmptyStorage EXCEPT ![SavedKey] = item] :
          item \in {None} \cup {Some(x) : x \in MalformedTexts \cup OtherJsonTexts \cup SavedTexts}}
  /\ clock = 0
  /\ queryHistory = NewQueryHistory
  /\ call = NoCall
  /\ queryBuilder = NewQueryBuilder
  /\ built = None
  /\ FormatIdle
  /\ TextIdle
  /\ AppIdle
  /\ UiIdle

SavedNext ==
  \/ \E query \in SavePool, elapsed \in 0..1 : Save(query, elapsed)
  \/ GetAllSaved
  \/ \E n \in 0..MaxClock : Delete(JNum(n))
  \/ Tick

SpecSaved == SavedInit /\ [][SavedNext]_vars

(***************************************************************************)
(* QueryHistory                                                            *)
(***************************************************************************)
\* the entry add(query) puts first: { query, timestamp }
historyEntry(query, now) ==
  JObj(setAll(<<>>, <<<<<<"q","u","e","r","y">>, query>>, <<<<"t","i","m","e","s","t","a","m","p">>, JStr(toISOString(now))>>>>))

\* history.pop() when the list is longer than maxSize: the last entry goes
popIfOver(items, maxSize) ==
  IF Len(items) > maxSize THEN SubSeq(items, 1, Len(items) - 1) ELSE items

\* the rest of add(query) once getAll() has returned history; the call
\* throws a TypeError when history has no unshift method
addAfterGetAll(query, history) ==
  IF typeOf(history) = "array"
  THEN /\ localStorage' =
            setItem(localStorage, queryHistory.storageKey,
                    stringify(JArr(popIfOver(<<historyEntry(query, clock)>>
                                             \o valueOf(history),
                                             queryHistory.maxSize))))
       /\ call' = Called("add", query, history, FALSE, JUndefined, clock)
  ELSE /\ call' = Called("add", query, history, TRUE, JUndefined, clock)
       /\ UNCHANGED localStorage

\* QueryHistory.add(query)
Add(query) ==
  /\ addAfterGetAll(query, getAll(localStorage, queryHistory.storageKey))
  /\ UNCHANGED <<clock, queryHistory, builderVars, formatVars, textVars, appVars, uiVars>>

\* QueryHistory.getAll()
GetAllHistory ==
  /\ call' = getAllCalled(getAll(localStorage, queryHistory.storageKey))
  /\ UNCHANGED <<localStorage, clock, queryHistory, builderVars, formatVars, textVars,
                 appVars, uiVars>>

\* QueryHistory.clear()
Clear ==
  /\ localStorage' = [localStorage EXCEPT ![queryHistory.storageKey] = None]
  /\ call' = Called("clear", JUndefined, JUndefined, FALSE, JUndefined, clock)
  /\ UNCHANGED <<clock, queryHistory, builderVars, formatVars, textVars, appVars, uiVars>>

\* new QueryHistory(storageKey, maxSize) over the same key
Construct(maxSize) ==
  /\ queryHistory' = [storageKey |-> HistoryKey, maxSize |-> maxSize]
  /\ call' = Called("new", JNum(maxSize), JUndefined, FALSE, JUndefined, clock)
  /\ UNCHANGED <<localStorage, clock, builderVars, formatVars, textVars, appVars, uiVars>>

\* the queries added
HistoryPool == {JStr(<<"S","E","L","E","C","T"," ","I","d">>), JStr(<<"S","E","L","E","C","T"," ","\"","N","a","m","e","\"","\n","F","R","O","M"," ","A">>)}

\* a stored list of n entries, the oldest last
HistoryList(n) == [i \in 1..n |-> historyEntry(JStr(<<"o","l","d">> \o NatToString(n - i)), 0)]

\* texts the key can hold when the page opens: no JSON, JSON that is no array,
\* and lists of up to one entry more than the largest maxSize
HistoryTexts == {stringify(JArr(HistoryList(n))) : n \in 0..(MaxHistorySize + 1)}

HistoryInit ==
  /\ localStorage \in
       {[EmptyStorage EXCEPT ![HistoryKey] = item] :
          item \in {None} \cup {Some(x) : x \in MalformedTexts \cup OtherJsonTexts \cup HistoryTexts}}
  /\ clock = 0
  /\ queryHistory \in {[storageKey |-> HistoryKey, maxSize |-> n] : n \in 1..MaxHistorySize}
  /\ call = NoCall
  /\ queryBuilder = NewQueryBuilder
  /\ built = None
  /\ FormatIdle
  /\ TextIdle
  /\ AppIdle
  /\ UiIdle

HistoryNext ==
  \/ \E query \in HistoryPool : Add(query)
  \/ GetAllHistory
  \/ Clear
  \/ \E n \in 1..MaxHistorySize : Construct(n)
  \/ Tick

SpecHistory == HistoryInit /\ [][HistoryNext]_vars

(***************************************************************************)
(* Claims about SavedQueries                                               *)
(***************************************************************************)
\* the last call was save, and it returned
SaveReturned == call.op = "save" /\ ~call.threw

\* does entry carry every property that query has, with its value
Carries(entry, query) ==
  \A i \in 1..Len(valueOf(query)) :
    get(entry, valueOf(query)[i][1]) = valueOf(query)[i][2]

StoredHistory == valueOf(getAll(localStorage, queryHistory.storageKey))

\* is short what is left of long after entries were dropped from its end
IsPrefix(short, long) ==
  Len(short) <= Len(long) /\ short = SubSeq(long, 1, Len(short))

\* C15: after add(query), whatever list the key held before, the stored list
\* has at most maxSize entries, the added query is its first entry, and the
\* entries dropped are the oldest ones.
C15_NeverExceedsMaxSize ==
  (call.op = "add" /\ typeOf(call.before) = "array") =>
    /\ Len(StoredHistory) <= queryHistory.maxSize
    /\ Len(StoredHistory) >= 1
    /\ get(StoredHistory[1], <<"q","u","e","r","y">>) = call.arg
    /\ IsPrefix(Tail(StoredHistory), valueOf(call.before))

\* C16: whatever text is stored under the key, getAll returns a list and
\* does not throw, the empty list for an absent key or malformed text, and
\* a following save completes and leaves a list that holds the new entry.
C16_NeverFailsLoudly ==
  /\ call.op = "getAll" => typeOf(call.returned) = "array"
  /\ call.op = "save" =>
       /\ ~call.threw
       /\ typeOf(getAll(localStorage, SavedKey)) = "array"
       /\ Carries(valueOf(getAll(localStorage, SavedKey))[1], call.arg)

(***************************************************************************)
(* The requests of ModernExportModel and their outcomes                    *)
(***************************************************************************)
\* the messages a rejection can carry
RejectionMessages == {<<"S","e","s","s","i","o","n"," ","e","x","p","i","r","e","d">>, <<"N","o","t"," ","f","o","u","n","d">>}

\* the handlers that send requests, and the outcomes of the requests
RequestsNext ==
  \/ ExecuteQueryButton
  \/ CtrlEnter
  \/ \E i \in 1..Len(SObjects) : SelectObject(i)
  \/ \E operation \in {"delete", "update"}, n \in 0..MaxRecords :
       ExecuteBatchOperation(operation, n)
  \/ \E i \in 1..MaxRequests : Resolve(i)
  \/ \E i \in 1..MaxRequests, message \in RejectionMessages : Reject(i, message)

SpecRequests == Init /\ [][RequestsNext]_vars

\* how many requests in flight have their outcome taken by the await of by
AwaitedBy(reqs, by) == Cardinality({j \in 1..Len(reqs) : reqs[j].by = by})

\* the requests of a batch over n records: one per record id
BatchRequests(operation, n) ==
  [j \in 1..n |->
     Request(operation, recordPath(queryBuilder.selectedObject, RecordId(j)), "batch")]

\* a batch request is rejected: catch and finally of executeBatchOperation
BatchRejected(i, message) ==
  (Reject(i, message) /\ requests[i].by = "batch") =>
    /\ model' = [model EXCEPT !.error = Some(message), !.isLoading = FALSE]
    /\ AwaitedBy(requests', "batchRefresh") = 0
    /\ Len(requests') = Len(requests) - 1
    /\ \A j \in 1..Len(requests') : requests'[j].kind = Without(requests, i)[j].kind
    /\ batch' = "idle"

\* a request of a batch that was rejected before has its outcome: nothing
\* takes it
LaterOutcomeIgnored(i, message) ==
  ((Reject(i, message) \/ Resolve(i)) /\ requests[i].by = "nobody") => model' = model

\* a batch request is fulfilled: the refresh follows the last one
BatchResolved(i) ==
  (Resolve(i) /\ requests[i].by = "batch") =>
    IF AwaitedBy(requests, "batch") > 1
    THEN /\ requests' = Without(requests, i)
         /\ batch' = "awaiting"
    ELSE /\ requests' =
              Append(Without(requests, i),
                     Request("query", buildQuery(queryBuilder), "batchRefresh"))
         /\ batch' = "refreshing"

\* C17: executeBatchOperation sends one request per record id and awaits
\* them together.  The first rejection puts its message in error, sends no
\* refresh query and withdraws none of the other requests, whose later
\* outcomes change nothing; when all are fulfilled the refresh query is sent,
\* once; isLoading is false when the operation ends either way.
C17_BatchOperation ==
  [][ /\ \A operation \in {"delete", "update"}, n \in 1..MaxRecords :
           ExecuteBatchOperation(operation, n) =>
             requests' = requests \o BatchRequests(operation, n)
      /\ \A i \in 1..MaxRequests, message \in RejectionMessages :
           BatchRejected(i, message) /\ LaterOutcomeIgnored(i, message)
      /\ \A i \in 1..MaxRequests : BatchResolved(i)
      /\ AwaitedBy(requests', "batchRefresh") <= 1
      /\ (batch # "idle" /\ batch' = "idle") => ~model'.isLoading ]_vars

\* one request of a batch was rejected, its message is in error, and another
\* request of that batch is still in flight
C17_Witness ==
  /\ batch = "idle"
  /\ model.error # None
  /\ ~model.isLoading
  /\ AwaitedBy(requests, "nobody") >= 1

\* every request of a batch was fulfilled and its refresh query is in flight
C17_WitnessRefresh ==
  /\ batch = "refreshing"
  /\ AwaitedBy(requests, "batchRefresh") = 1
  /\ AwaitedBy(requests, "batch") = 0

\* C18: isLoading is true whenever a request sent by the model is still in
\* flight, and false once none is.
C18_LoadingWhileOutstanding == model.isLoading <=> requests # <<>>

\* a request of one of the three loaders is rejected
LoaderRejected(i, message) ==
  (Reject(i, message)
   /\ requests[i].by \in {"executeQuery", "loadObjectMetadata", "loadFieldMetadata"}) =>
    /\ model' = [model EXCEPT !.error = Some(message), !.isLoading = FALSE]
    /\ requests' = Without(requests, i)
    /\ UNCHANGED <<queryBuilder, batch>>

\* C19: when a request of executeQuery, loadObjectMetadata or
\* loadFieldMetadata is rejected, error becomes the message of the rejection,
\* isLoading becomes false, results and metadata stay as they were and no
\* request is sent again; a new query attempt is accepted, and its start sets
\* error to null.
C19_LoaderRejection ==
  /\ [][ /\ \A i \in 1..MaxRequests, message \in RejectionMessages :
              LoaderRejected(i, message)
         /\ (ExecuteQueryButton \/ CtrlEnter) =>
              (model'.error = None /\ model'.isLoading) ]_vars
  /\ [](model.error # None /\ Len(requests) < MaxRequests => ENABLED ExecuteQueryButton)

\* a rejection left its message in error, with nothing in flight
C19_Witness ==
  /\ model.error # None
  /\ ~model.isLoading
  /\ requests = <<>>
  /\ batch = "idle"

\* a query attempt started after results arrived: error is null again
C19_WitnessNewAttempt ==
  /\ model.error = None
  /\ model.results # None
  /\ AwaitedBy(requests, "executeQuery") >= 1

(***************************************************************************)
(* ResultsTable.exportToExcel and exportToCsv                              *)
(***************************************************************************)
MaxExportRecords == 2

\* String(x), for the values a record of a query result holds
toStr(x) ==
  CASE typeOf(x) = "string" -> valueOf(x)
    [] typeOf(x) = "number" -> IntToString(valueOf(x))
    [] typeOf(x) = "boolean" -> IF valueOf(x) THEN <<"t","r","u","e">> ELSE <<"f","a","l","s","e">>
    [] typeOf(x) = "null" -> <<"n","u","l","l">>
    [] typeOf(x) = "undefined" -> <<"u","n","d","e","f","i","n","e","d">>
    [] typeOf(x) = "object" -> <<"[","o","b","j","e","c","t"," ","O","b","j","e","c","t","]">>

\* text.replace(/"/g, '""')
doubleQuotes(text) ==
  flatten([i \in 1..Len(text) |-> IF text[i] = "\"" THEN <<"\"","\"">> ELSE <<text[i]>>])

\* x || ''
orBlank(x) == IF falsy(x) THEN JStr(<<>>) ELSE x

\* `"${String(record[field] || '').replace(/"/g, '""')}"`
cell(record, field) ==
  <<"\"">> \o doubleQuotes(toStr(orBlank(get(record, field)))) \o <<"\"">>

\* the cells of each record joined by sep, the lines joined by a line feed
exportWith(records, fields, sep) ==
  join([r \in 1..Len(records) |->
          join([f \in 1..Len(fields) |-> cell(records[r], fields[f])], sep)],
       <<"\n">>)

exportToExcel(records, fields) == exportWith(records, fields, <<"\t">>)
exportToCsv(records, fields) == exportWith(records, fields, <<",">>)

\* exportToExcel(records, fields) is called
ExportToExcel(records, fields) ==
  /\ call' = Called("exportToExcel", <<records, fields>>, JUndefined, FALSE,
                    exportToExcel(records, fields), clock)
  /\ UNCHANGED <<localStorage, clock, queryHistory, builderVars, formatVars, textVars,
                 appVars, uiVars>>

\* exportToCsv(records, fields) is called
ExportToCsv(records, fields) ==
  /\ call' = Called("exportToCsv", <<records, fields>>, JUndefined, FALSE,
                    exportToCsv(records, fields), clock)
  /\ UNCHANGED <<localStorage, clock, queryHistory, builderVars, formatVars, textVars,
                 appVars, uiVars>>

\* records of a query result: text with quotes, a comma and a tab, numbers,
\* booleans, null, the empty text, a related record
ExportRecords ==
  { JObj(<<<<<<"I","d">>, JStr(<<"0","0","1">>)>>, <<<<"N","a","m","e">>, JStr(<<"A","c","m","e"," ","\"","A","\"",","," ","I","n","c","\t">>)>>,
           <<<<"A","m","o","u","n","t">>, JNum(12)>>, <<<<"A","c","t","i","v","e">>, JBool(TRUE)>>>>),
    JObj(<<<<<<"I","d">>, JStr(<<"0","0","2">>)>>, <<<<"N","a","m","e">>, JStr(<<>>)>>,
           <<<<"A","m","o","u","n","t">>, JNum(0)>>, <<<<"A","c","t","i","v","e">>, JBool(FALSE)>>>>),
    JObj(<<<<<<"I","d">>, JStr(<<"0","0","3">>)>>, <<<<"N","a","m","e">>, JNull>>,
           <<<<"A","m","o","u","n","t">>, JNum(-5)>>,
           <<<<"O","w","n","e","r">>, JObj(<<<<<<"N","a","m","e">>, JStr(<<"A","n","n">>)>>>>)>>>>) }

ExportFields ==
  { <<>>, <<<<"I","d">>>>, <<<<"N","a","m","e">>>>, <<<<"A","m","o","u","n","t">>>>, <<<<"A","c","t","i","v","e">>>>, <<<<"O","w","n","e","r">>>>,
    <<<<"I","d">>, <<"N","a","m","e">>>>, <<<<"N","a","m","e">>, <<"I","d">>>>, <<<<"A","m","o","u","n","t">>, <<"A","c","t","i","v","e">>, <<"N","a","m","e">>>>,
    <<<<"I","d">>, <<"M","i","s","s","i","n","g">>, <<"O","w","n","e","r">>>> }

ExportNext ==
  \/ \E records \in SeqsUpTo(ExportRecords, MaxExportRecords), fields \in ExportFields :
       ExportToExcel(records, fields)
  \/ \E records \in SeqsUpTo(ExportRecords, MaxExportRecords), fields \in ExportFields :
       ExportToCsv(records, fields)

ExportInit ==
  /\ StoreIdle
  /\ queryBuilder = NewQueryBuilder
  /\ built = None
  /\ FormatIdle
  /\ TextIdle
  /\ AppIdle
  /\ UiIdle

SpecExport == ExportInit /\ [][ExportNext]_vars

\* is the field empty or absent in the record
EmptyOrAbsent(record, field) ==
  \/ typeOf(get(record, field)) \in {"null", "undefined"}
  \/ get(record, field) = JStr(<<>>)

\* the cell the export is to hold: blank for an empty or absent field, else
\* the string form of the value, quotes doubled, in double quotes
ExpectedCell(record, field) ==
  IF EmptyOrAbsent(record, field) THEN <<"\"","\"">>
  ELSE <<"\"">> \o doubleQuotes(toStr(get(record, field))) \o <<"\"">>

ExpectedExport(records, fields, sep) ==
  join([r \in 1..Len(records) |->
          join([f \in 1..Len(fields) |-> ExpectedCell(records[r], fields[f])], sep)],
       <<"\n">>)

\* C20: in the Excel and the CSV export every cell is the string form of the
\* value, 0 and false included, in double quotes with quotes doubled, blank
\* exactly for an empty or absent field; one line per record, one cell per
\* field, in the order of the field list.
C20_CellsAreStringForms ==
  /\ call.op = "exportToExcel" =>
       call.returned = ExpectedExport(call.arg[1], call.arg[2], <<"\t">>)
  /\ call.op = "exportToCsv" =>
       call.returned = ExpectedExport(call.arg[1], call.arg[2], <<",">>)

(***************************************************************************)
(* UndoManager, and saveState / undo / redo of ModernExportModel           *)
(***************************************************************************)
MaxUndoHistory == 2

\* JSON.parse(JSON.stringify(builder)) of a builder: a plain object with the
\* same conditions, selectedObject, orderBy, limit and groupOperator; the Set
\* selectedFields has no enumerable property and comes back as {}
cloneBuilder(builder) == [builder EXCEPT !.selectedFields = <<>>]

\* JSON.parse(JSON.stringify(state)) of { queryBuilder, results }
cloneState(state) ==
  [queryBuilder |-> cloneBuilder(state.queryBuilder), results |-> state.results]

canUndo(manager) == manager.currentIndex > 0
canRedo(manager) == manager.currentIndex < Len(manager.history) - 1

\* history.slice(0, currentIndex + 1) when there are states after currentIndex
withoutFuture(manager) ==
  IF manager.currentIndex < Len(manager.history) - 1
  THEN SubSeq(manager.history, 1, manager.currentIndex + 1)
  ELSE manager.history

\* the manager once history holds pushed: shift() when it is longer than
\* maxHistory, else currentIndex++
afterPush_mutNoShift(manager, pushed) ==
  [manager EXCEPT !.history = pushed, !.currentIndex = manager.currentIndex + 1]

afterPush(manager, pushed) ==
  IF Len(pushed) > manager.maxHistory
  THEN [manager EXCEPT !.history = Tail(pushed)]
  ELSE [manager EXCEPT !.history = pushed, !.currentIndex = manager.currentIndex + 1]

\* UndoManager.pushState(state)
pushState(manager, state) ==
  afterPush(manager, Append(withoutFuture(manager), cloneState(state)))

\* the state of the model that saveState() hands to the manager
currentState == [queryBuilder |-> queryBuilder, results |-> model.results]

\* the builder as it was at a saveState(), with its class
Saved(builder, class) == Some([queryBuilder |-> builder, class |-> class])

\* call when no saveState() has been called yet
NothingSaved(op) == Called(op, None, None, FALSE, 0, 0)

\* ModernExportModel.saveState(); call keeps the builder saved now, the one
\* saved before it when that was the call before, and how many undo steps
\* have been taken back since
SaveState ==
  /\ undoManager' = pushState(undoManager, currentState)
  /\ call' = Called("saveState", Saved(queryBuilder, builderClass),
                    IF call.op = "saveState" THEN call.arg ELSE None, FALSE, 0, 0)
  /\ UNCHANGED <<localStorage, clock, queryHistory, builderVars, builderClass, filter,
                 table, button, formatVars, textVars, appVars>>

\* this.queryBuilder = state.queryBuilder; this.results = state.results
restore(state) ==
  /\ queryBuilder' = state.queryBuilder
  /\ builderClass' = "Object"
  /\ model' = [model EXCEPT !.results = state.results]

\* ModernExportModel.undo(), by Ctrl/Cmd + Z: UndoManager.undo() returns null
\* when there is nothing to undo
Undo ==
  /\ IF canUndo(undoManager)
     THEN /\ undoManager' = [undoManager EXCEPT !.currentIndex = @ - 1]
          /\ restore(cloneState(undoManager.history[undoManager.currentIndex]))
          /\ call' = [call EXCEPT !.op = "undo", !.returned = @ + 1]
     ELSE /\ call' = [call EXCEPT !.op = "undo"]
          /\ UNCHANGED <<undoManager, queryBuilder, builderClass, model>>
  /\ UNCHANGED <<localStorage, clock, queryHistory, built, filter, table, button,
                 formatVars, textVars, requests, batch>>

\* ModernExportModel.redo(), by Ctrl/Cmd + Shift + Z or Ctrl/Cmd + Y
Redo ==
  /\ IF canRedo(undoManager)
     THEN /\ undoManager' = [undoManager EXCEPT !.currentIndex = @ + 1]
          /\ restore(cloneState(undoManager.history[undoManager.currentIndex + 2]))
          /\ call' = [call EXCEPT !.op = "redo", !.returned = @ - 1]
     ELSE /\ call' = [call EXCEPT !.op = "redo"]
          /\ UNCHANGED <<undoManager, queryBuilder, builderClass, model>>
  /\ UNCHANGED <<localStorage, clock, queryHistory, built, filter, table, button,
                 formatVars, textVars, requests, batch>>

\* UndoManager.clear()
ClearUndo ==
  /\ undoManager' = [undoManager EXCEPT !.history = <<>>, !.currentIndex = -1]
  /\ call' = NothingSaved("clear")
  /\ UNCHANGED <<localStorage, clock, queryHistory, builderVars, builderClass, filter,
                 table, button, formatVars, textVars, appVars>>

\* onSelect of the field selector (lines 918-922): a new Set of the names
SelectFields(names) ==
  /\ queryBuilder' = [queryBuilder EXCEPT !.selectedFields = names]
  /\ built' = None
  /\ UNCHANGED <<formatVars, textVars, appVars, storeVars, uiVars>>

UndoInit ==
  /\ undoManager \in {NewUndoManager(n) : n \in 0..MaxUndoHistory}
  /\ builderClass = "QueryBuilder"
  /\ filter = NewAdvancedFilter
  /\ table = NewResultsTable(0)
  /\ button = NewButton
  /\ queryBuilder = NewQueryBuilder
  /\ built = None
  /\ FormatIdle
  /\ TextIdle
  /\ AppIdle
  /\ localStorage = EmptyStorage
  /\ clock = 0
  /\ queryHistory = NewQueryHistory
  /\ call = NothingSaved("new")

UndoNext ==
  \/ SaveState
  \/ Undo
  \/ Redo
  \/ ClearUndo
  \/ \E value \in {<<>>, <<"2","5">>} : LimitInput(value)
  \/ \E names \in {<<>>, <<<<"N","a","m","e">>>>} : SelectFields(names)

SpecUndo == UndoInit /\ [][UndoNext]_vars

\* C21: when saveState() was called in builder state S1 and, after a change,
\* again in S2, undo() makes the model's queryBuilder a live builder that
\* holds what S1 held, and a following redo() likewise restores S2.
C21_UndoRestores ==
  [][ /\ ( /\ call.op = "saveState" /\ call.before # None
           /\ call'.op = "undo"
           /\ undoManager'.currentIndex = undoManager.currentIndex - 1
           /\ call.before[1].class = "QueryBuilder" )
         => ( /\ builderClass' = "QueryBuilder"
              /\ queryBuilder' = call.before[1].queryBuilder )
      /\ ( /\ call.op = "undo" /\ call.returned = 1
           /\ call'.op = "redo"
           /\ undoManager'.currentIndex = undoManager.currentIndex + 1
           /\ call.arg[1].class = "QueryBuilder" )
         => ( /\ builderClass' = "QueryBuilder"
              /\ queryBuilder' = call.arg[1].queryBuilder ) ]_vars

\* the states of history before its last: what pushState kept of the old
\* history, the states up to the old currentIndex, less the oldest on overflow
KeptByPush(manager) == SubSeq(manager.history, 1, manager.currentIndex + 1)

\* C27: history is never longer than maxHistory; currentIndex is -1 exactly
\* when history is empty and else lies within history; right after
\* pushState currentIndex is the last index and the states beyond the old
\* index are gone; undo and redo with nothing to undo or redo change nothing.
C27_IndexAndBounds ==
  /\ [](/\ Len(undoManager.history) <= undoManager.maxHistory
        /\ undoManager.currentIndex = -1 <=> undoManager.history = <<>>
        /\ undoManager.history # <<>> =>
             undoManager.currentIndex \in 0..(Len(undoManager.history) - 1))
  /\ [][ /\ SaveState =>
              /\ undoManager'.currentIndex = Len(undoManager'.history) - 1
              /\ ~canRedo(undoManager')
              /\ \/ undoManager'.history = <<>>
                 \/ SubSeq(undoManager'.history, 1, Len(undoManager'.history) - 1)
                      = KeptByPush(undoManager)
                 \/ /\ KeptByPush(undoManager) # <<>>
                    /\ SubSeq(undoManager'.history, 1, Len(undoManager'.history) - 1)
                         = Tail(KeptByPush(undoManager))
         /\ (Undo /\ ~canUndo(undoManager)) =>
              UNCHANGED <<undoManager, queryBuilder, builderClass, model>>
         /\ (Redo /\ ~canRedo(undoManager)) =>
              UNCHANGED <<undoManager, queryBuilder, builderClass, model>> ]_vars

\* history is full, and an undo has left a state to redo
C27_Witness ==
  /\ undoManager.maxHistory >= 2
  /\ Len(undoManager.history) = undoManager.maxHistory
  /\ canRedo(undoManager)
  /\ call.op = "undo"

\* a redo was tried with nothing to redo, in a full history
C27_WitnessNoRedo ==
  /\ call.op = "redo"
  /\ ~canRedo(undoManager)
  /\ Len(undoManager.history) = undoManager.maxHistory
  /\ undoManager.maxHistory >= 1

(***************************************************************************)
(* AdvancedFilter: the conditions dialog                                   *)
(***************************************************************************)
MaxFilterConditions == 2

\* the fields the dialog offers, as the describe call gave them
FilterFields ==
  { [name |-> <<"A","m","o","u","n","t">>, label |-> <<"A","m","o","u","n","t">>, type |-> "number"],
    [name |-> <<"N","a","m","e">>, label |-> <<"A","c","c","o","u","n","t"," ","N","a","m","e">>, type |-> "string"] }

\* the condition onFieldSelect(field) makes; its id, Date.now(), is taken to
\* differ from the ids of the other conditions, which are told apart here by
\* their position
newCondition(field) ==
  [field |-> field.name, fieldLabel |-> field.label, operator |-> <<"=">>,
   value |-> <<>>, valueType |-> <<"l","i","t","e","r","a","l">>]

\* AdvancedFilter.onFieldSelect(field)
OnFieldSelect(field) ==
  /\ Len(filter.conditions) < MaxFilterConditions
  /\ filter' = [filter EXCEPT !.conditions = Append(@, newCondition(field))]
  /\ UNCHANGED <<undoManager, builderClass, table, button, builderVars, formatVars,
                 textVars, appVars, storeVars>>

\* updateCondition(id, { operator }), from the operator select
UpdateOperator(i, operator) ==
  /\ i \in 1..Len(filter.conditions)
  /\ filter' = [filter EXCEPT !.conditions[i].operator = operator]
  /\ UNCHANGED <<undoManager, builderClass, table, button, builderVars, formatVars,
                 textVars, appVars, storeVars>>

\* updateCondition(id, { value }), from the value input
UpdateValue(i, value) ==
  /\ i \in 1..Len(filter.conditions)
  /\ filter' = [filter EXCEPT !.conditions[i].value = value]
  /\ UNCHANGED <<undoManager, builderClass, table, button, builderVars, formatVars,
                 textVars, appVars, storeVars>>

\* removeCondition(id)
RemoveCondition(i) ==
  /\ i \in 1..Len(filter.conditions)
  /\ filter' = [filter EXCEPT !.conditions = Without(@, i)]
  /\ UNCHANGED <<undoManager, builderClass, table, button, builderVars, formatVars,
                 textVars, appVars, storeVars>>

\* the select of the dialog: AND or OR
SetOperator(operator) ==
  /\ filter' = [filter EXCEPT !.operator = operator]
  /\ UNCHANGED <<undoManager, builderClass, table, button, builderVars, formatVars,
                 textVars, appVars, storeVars>>

\* a condition of the dialog as buildQuery reads it: it has no type and no
\* groupId property
asBuilderCondition(condition) ==
  Condition(condition.field, condition.operator, condition.value, "undefined", None)

\* Apply Conditions (line 1986), then onApply (lines 929-934): the builder
\* gets the conditions and the operator, and the dialog is closed
ApplyConditions ==
  /\ queryBuilder' =
       [queryBuilder EXCEPT
          !.conditions = [i \in 1..Len(filter.conditions) |->
                            asBuilderCondition(filter.conditions[i])],
          !.groupOperator = filter.operator]
  /\ built' = None
  /\ filter' = NewAdvancedFilter
  /\ UNCHANGED <<undoManager, builderClass, table, button, formatVars, textVars,
                 appVars, storeVars>>

FilterNext ==
  \/ \E field \in FilterFields : OnFieldSelect(field)
  \/ \E i \in 1..MaxFilterConditions, operator \in {<<"=">>, <<">">>} : UpdateOperator(i, operator)
  \/ \E i \in 1..MaxFilterConditions, value \in {<<>>, <<"5">>, <<"O","'","B","r","i","e","n">>} : UpdateValue(i, value)
  \/ \E i \in 1..MaxFilterConditions : RemoveCondition(i)
  \/ \E operator \in OperatorChoices : SetOperator(operator)
  \/ ApplyConditions
  \/ BuildQuery

FilterInit ==
  /\ queryBuilder = NewQueryBuilder
  /\ built = None
  /\ FormatIdle
  /\ TextIdle
  /\ AppIdle
  /\ StoreIdle
  /\ UiIdle

SpecFilter == FilterInit /\ [][FilterNext]_vars

\* the declared type of the field of a condition
DeclaredType(condition) == (CHOOSE f \in FilterFields : f.name = condition.field).type

\* the builder with every condition carrying the declared type of its field
WithDeclaredTypes(this) ==
  [this EXCEPT !.conditions =
     [i \in 1..Len(this.conditions) |->
        [this.conditions[i] EXCEPT !.type = DeclaredType(this.conditions[i])]]]

\* C22: every condition that the dialog created and Apply handed to the
\* builder carries the type of its field, so that buildQuery formats its
\* value by that type: a number without quotes.
C22_ConditionsCarryType ==
  /\ \A i \in 1..Len(queryBuilder.conditions) :
       queryBuilder.conditions[i].type = DeclaredType(queryBuilder.conditions[i])
  /\ built # None => built[1] = buildQuery(WithDeclaredTypes(queryBuilder))

(***************************************************************************)
(* The injected button and its popup (button.js)                           *)
(***************************************************************************)
MaxPosted == 3
MaxShown == 1

sfHost == <<"o","r","g",".","m","y",".","s","a","l","e","s","f","o","r","c","e",".","c","o","m">>
locationHref == <<"h","t","t","p","s",":","/","/","o","r","g",".","m","y",".","s","a","l","e","s","f","o","r","c","e",".","c","o","m","/","0","0","1">>

\* a message posted to the popup window
Posted(type, payload) == [type |-> type, payload |-> payload]

\* lines 69-75: the answer to an init request
InitResponse(b) ==
  Posted("insextInitResponse", <<sfHost, b.inDevConsole, b.inLightning, b.inInspector>>)

\* lines 91-94
UpdateRecordId == Posted("insextUpdateRecordId", <<locationHref>>)

\* openPopup()
openPopup(b) ==
  IF b.popupEl
  THEN [b EXCEPT !.active = TRUE, !.posted = Append(@, UpdateRecordId),
                 !.display = "block", !.overflow = "hidden"]
  ELSE [b EXCEPT !.active = TRUE]

\* closePopup()
closePopup_mutKeepsScrollLock(b) ==
  IF b.popupEl
  THEN [b EXCEPT !.active = FALSE, !.display = "none"]
  ELSE [b EXCEPT !.active = FALSE]

closePopup(b) ==
  IF b.popupEl
  THEN [b EXCEPT !.active = FALSE, !.display = "none", !.overflow = ""]
  ELSE [b EXCEPT !.active = FALSE]

\* lines 49-57: the first opening makes the iframe and adds the listener
createPopup(b) ==
  IF ~b.popupEl
  THEN [b EXCEPT !.popupEl = TRUE, !.iframes = @ + 1, !.listeners = @ + 1]
  ELSE b

\* the click handler of the button (lines 47-62)
clicked(b) == IF ~b.active THEN openPopup(createPopup(b)) ELSE closePopup(b)

\* e.source == popupEl?.contentWindow, for the windows a message can come
\* from: the popup, the page itself, another frame
fromPopup_mutAnySource(source) == TRUE

fromPopup(source) == source = "popup"

\* the four ifs of handleMessage, one after the other, on the flags of e.data
afterInitRequest(b, data) ==
  IF "insextInitRequest" \in data
  THEN [b EXCEPT !.posted = Append(@, InitResponse(b))] ELSE b
afterLoaded(b, data) == IF "insextLoaded" \in data THEN openPopup(b) ELSE b
afterClosePopup(b, data) == IF "insextClosePopup" \in data THEN closePopup(b) ELSE b
afterShowDetails(b, data) ==
  IF "insextShowStdPageDetails" \in data THEN [b EXCEPT !.shown = @ + 1] ELSE b

\* handleMessage(e)
handleMessage(b, source, data) ==
  IF ~fromPopup(source) THEN b
  ELSE afterShowDetails(afterClosePopup(afterLoaded(afterInitRequest(b, data), data),
                                        data), data)

ButtonUnchanged ==
  UNCHANGED <<undoManager, builderClass, filter, table, builderVars, formatVars,
              textVars, appVars, storeVars>>

\* the user clicks the button
Click ==
  /\ Len(button.posted) < MaxPosted
  /\ button' = clicked(button)
  /\ ButtonUnchanged

\* a message event reaches the window: the listener runs when it was added;
\* the popup can send only once it exists
MessageEvent(source, data) ==
  /\ source = "popup" => button.popupEl
  /\ Len(button.posted) + 2 <= MaxPosted
  /\ "insextShowStdPageDetails" \in data => button.shown < MaxShown
  /\ button' = IF button.listeners > 0 THEN handleMessage(button, source, data)
               ELSE button
  /\ ButtonUnchanged

\* the popup takes the oldest message posted to it
PopupTakes ==
  /\ button.posted # <<>>
  /\ button' = [button EXCEPT !.posted = Tail(@)]
  /\ ButtonUnchanged

MessageFlags ==
  {"insextInitRequest", "insextLoaded", "insextClosePopup", "insextShowStdPageDetails"}
MessageSources == {"popup", "page", "frame"}

ButtonInit ==
  /\ button \in {[NewButton EXCEPT !.inInspector = i, !.inDevConsole = d, !.inLightning = l] :
                   i \in BOOLEAN, d \in BOOLEAN, l \in BOOLEAN}
  /\ undoManager = NewUndoManager(50)
  /\ builderClass = "QueryBuilder"
  /\ filter = NewAdvancedFilter
  /\ table = NewResultsTable(0)
  /\ queryBuilder = NewQueryBuilder
  /\ built = None
  /\ FormatIdle
  /\ TextIdle
  /\ AppIdle
  /\ StoreIdle

ButtonNext ==
  \/ Click
  \/ \E source \in MessageSources, data \in SUBSET MessageFlags : MessageEvent(source, data)
  \/ PopupTakes

SpecButton == ButtonInit /\ [][ButtonNext]_vars

\* how many messages of a type are among those posted
PostedOf(b, type) == Cardinality({i \in 1..Len(b.posted) : b.posted[i].type = type})

\* C23: a message event whose source is not the window of the popup changes
\* nothing and gets no reply; from the popup, an init request is answered by
\* exactly one init response with sfHost and the context flags, a loaded
\* message opens the popup, a close message closes it.
C23_OnlyPopupMessages ==
  [][ \A source \in MessageSources, data \in SUBSET MessageFlags :
        MessageEvent(source, data) =>
          IF source # "popup" THEN button' = button
          ELSE /\ PostedOf(button', "insextInitResponse")
                    = PostedOf(button, "insextInitResponse")
                      + (IF "insextInitRequest" \in data THEN 1 ELSE 0)
               /\ "insextInitRequest" \in data =>
                    \E i \in 1..Len(button'.posted) :
                      /\ i > Len(button.posted)
                      /\ button'.posted[i].type = "insextInitResponse"
                      /\ button'.posted[i].payload =
                           <<sfHost, button.inDevConsole, button.inLightning,
                             button.inInspector>>
               /\ ("insextLoaded" \in data /\ "insextClosePopup" \notin data) =>
                    (button'.active /\ button'.display = "block")
               /\ "insextClosePopup" \in data =>
                    (~button'.active /\ button'.display = "none")
               /\ button'.shown = button.shown
                    + (IF "insextShowStdPageDetails" \in data THEN 1 ELSE 0) ]_vars

\* the popup was opened by a loaded message, and an init response is posted
C23_Witness ==
  /\ button.active
  /\ button.popupEl
  /\ PostedOf(button, "insextInitResponse") = 1
  /\ PostedOf(button, "insextUpdateRecordId") = 2

\* C24: the root element has the class insext-active exactly when the popup
\* iframe exists and is displayed, exactly when scrolling of the body is
\* locked; the iframe and the message listener are made at most once.
C24_VisibilityConsistent ==
  /\ button.active <=> (button.popupEl /\ button.display = "block")
  /\ button.active <=> button.overflow = "hidden"
  /\ button.iframes <= 1
  /\ button.listeners <= 1

\* the popup was opened and is closed again
C24_Witness ==
  /\ ~button.active
  /\ button.popupEl
  /\ button.display = "none"
  /\ button.overflow = ""
  /\ button.iframes = 1

\* C25: once the popup was closed, by a click or by a close message, only a
\* click of the user makes it visible again, no message does.
C25_StaysClosed ==
  [][ (button.popupEl /\ ~button.active /\ button'.active) => button' = clicked(button) ]_vars

(***************************************************************************)
(* Overlapping requests that all succeed                                   *)
(***************************************************************************)
\* model.executeQuery(query) is called, up to its await; call keeps the
\* query of the latest call
ExecuteQuery(text) ==
  /\ Len(requests) < MaxRequests
  /\ executeQueryStart(text, "executeQuery")
  /\ call' = Called("executeQuery", text, JUndefined, FALSE, JUndefined, clock)
  /\ UNCHANGED <<localStorage, clock, queryHistory, queryBuilder, batch, built,
                 formatVars, textVars, uiVars>>

OverlapNext ==
  \/ \E text \in {<<"S","E","L","E","C","T"," ","I","d"," ","F","R","O","M"," ","A","c","c","o","u","n","t">>, <<"S","E","L","E","C","T"," ","I","d"," ","F","R","O","M"," ","C","o","n","t","a","c","t">>} : ExecuteQuery(text)
  \/ \E i \in 1..Len(SObjects) : SelectObject(i)
  \/ \E i \in 1..MaxRequests : Resolve(i)

SpecOverlap == Init /\ [][OverlapNext]_vars

\* C26: when overlapping requests have all resolved, results are those of
\* the query issued last, and fieldMetadata describes the object selected
\* now, whatever the order of the responses.
C26_LatestRequestWins ==
  /\ (AwaitedBy(requests, "executeQuery") = 0 /\ call.op = "executeQuery") =>
       model.results = Some(call.arg)
  /\ (AwaitedBy(requests, "loadFieldMetadata") = 0 /\ queryBuilder.selectedObject # None) =>
       model.fieldMetadata = Some(Describe(queryBuilder.selectedObject[1]))

(***************************************************************************)
(* Identifiers of saved queries                                            *)
(***************************************************************************)
\* the id of the entry at the head of the stored list
NewestId(storage) == get(valueOf(getAll(storage, SavedKey))[1], <<"i","d">>)

\* C28: the identifier a save assigns differs from the one the save before
\* it assigned (both entries are in the list), so that no delete(id) removes
\* two entries.
C28_IdsUnique ==
  [][(call.op = "save" /\ ~call.threw /\ call'.op = "save" /\ ~call'.threw) =>
       NewestId(localStorage') # NewestId(localStorage)]_vars

(***************************************************************************)
(* Order of the groups in the WHERE clause                                 *)
(***************************************************************************)
\* the WHERE clause with the groups in the order of their first condition
WhereAsFirstSeen(this) ==
  IF Len(this.conditions) > 0
  THEN LET keys == insertionOrder(this.conditions, {})
           groups == [i \in 1..Len(keys) |->
             groupString(this, SelectSeq(this.conditions, LAMBDA c : groupKey(c) = keys[i]))]
       IN <<" ","W","H","E","R","E"," ">> \o join(groups, <<" ">> \o this.groupOperator \o <<" ">>)
  ELSE <<>>

\* C29: the groups of the WHERE clause come in the order in which the first
\* condition of each occurs in conditions, whatever the group ids, and the
\* conditions of a group keep their order.
C29_GroupsInFirstOccurrenceOrder ==
  built # None =>
    built[1] = <<"S","E","L","E","C","T"," ">> \o selectClause(queryBuilder) \o fromClause(queryBuilder)
                 \o WhereAsFirstSeen(queryBuilder) \o orderByClause(queryBuilder)
                 \o limitClause(queryBuilder)

(***************************************************************************)
(* ResultsTable: pages                                                     *)
(***************************************************************************)
MaxPage == 4

\* the sizes of the page-size select, and the numbers of records a result
\* can hold here
PageSizes == {10, 25, 50, 100}
RecordCounts == {0, 1, 10, 11, 25, 50, 51, 120}

\* Math.ceil((data?.records?.length || 0) / pageSize)
totalPages(state) == (state.records + state.pageSize - 1) \div state.pageSize

\* records.slice(start, start + pageSize).length in getSortedData
rowsShown(state) ==
  LET start == (state.page - 1) * state.pageSize
      end == IF start + state.pageSize < state.records
             THEN start + state.pageSize ELSE state.records
  IN IF end > start THEN end - start ELSE 0

\* the disabled attributes of the two buttons
previousDisabled(state) == state.page = 1
nextDisabled(state) == state.page = totalPages(state)

\* a click on Previous
PreviousPage ==
  /\ ~previousDisabled(table)
  /\ table' = [table EXCEPT !.page = table.page - 1]
  /\ UNCHANGED <<undoManager, builderClass, filter, button, builderVars, formatVars,
                 textVars, appVars, storeVars>>

\* a click on Next
NextPage ==
  /\ ~nextDisabled(table)
  /\ table.page < MaxPage
  /\ table' = [table EXCEPT !.page = table.page + 1]
  /\ UNCHANGED <<undoManager, builderClass, filter, button, builderVars, formatVars,
                 textVars, appVars, storeVars>>

\* the page-size select changes
PageSizeChange(size) ==
  /\ table' = [table EXCEPT !.pageSize = size, !.page = 1]
  /\ UNCHANGED <<undoManager, builderClass, filter, button, builderVars, formatVars,
                 textVars, appVars, storeVars>>

\* a query resolves with no render while it was loading: the mounted table
\* gets the new data as props and keeps its state
ReplaceData(count) ==
  /\ table' = [table EXCEPT !.records = count]
  /\ UNCHANGED <<undoManager, builderClass, filter, button, builderVars, formatVars,
                 textVars, appVars, storeVars>>

\* the panel rendered the spinner or the error in between: a new table
Remount(count) ==
  /\ table' = NewResultsTable(count)
  /\ UNCHANGED <<undoManager, builderClass, filter, button, builderVars, formatVars,
                 textVars, appVars, storeVars>>

TableInit ==
  /\ table \in {NewResultsTable(count) : count \in RecordCounts}
  /\ undoManager = NewUndoManager(50)
  /\ builderClass = "QueryBuilder"
  /\ filter = NewAdvancedFilter
  /\ button = NewButton
  /\ queryBuilder = NewQueryBuilder
  /\ built = None
  /\ FormatIdle
  /\ TextIdle
  /\ AppIdle
  /\ StoreIdle

TableNext ==
  \/ PreviousPage
  \/ NextPage
  \/ \E size \in PageSizes : PageSizeChange(size)
  \/ \E count \in RecordCounts : ReplaceData(count)
  \/ \E count \in RecordCounts : Remount(count)

SpecTable == TableInit /\ [][TableNext]_vars

\* the last page: max(1, total pages)
LastPage(state) == IF totalPages(state) > 1 THEN totalPages(state) ELSE 1

\* C30: the page is within 1..max(1, total pages), Next is disabled on the
\* last page, and the page shown has rows whenever the data has records.
C30_PageWithinRange ==
  /\ 1 <= table.page
  /\ table.page <= LastPage(table)
  /\ (table.page = LastPage(table) => nextDisabled(table))
  /\ (table.records > 0 => rowsShown(table) > 0)

====
